---- MODULE Spec2Model ----
(***************************************************************************)
(* Xget URL converter (src/src/createSampleUrl.js): platform detection,    *)
(* path rewriting, URL composition and the handlers that drive them.       *)
(*                                                                         *)
(* A JavaScript string is a sequence of one-character strings, so that     *)
(* startsWith, endsWith, includes, split, join, toLowerCase, trim and the  *)
(* regular expressions are computed character by character.                *)
(*                                                                         *)
(* new URL(s) follows the URL standard for every scheme (http, https, ftp, *)
(* ws, wss; file; any other) on strings of letters, digits, space and      *)
(* '.', '-', '+', '_', '/', '?', '=', ':', '@': credentials and a port are *)
(* read and dropped from the hostname, a space is a failure in a host and  *)
(* %20 in a path or a query. Left out: '#', '%', '\', '[', '|' and other   *)
(* punctuation, '.' and '..' path segments, hosts whose last label is a    *)
(* number or that hold an xn-- label, Windows drive letters after file:,   *)
(* a space directly before the '?' of an opaque path.                      *)
(* The texts of the catalog are not names of Object.prototype members.     *)
(* Registry keys are not integer-like, so Object.entries lists the         *)
(* entries in insertion order.                                             *)
(* The two fields change through the events the listeners see; nothing is  *)
(* typed before the listeners are registered.                              *)
(***************************************************************************)
EXTENDS Integers, Sequences, FiniteSets, TLC

VARIABLES
    pc,                 \* "module" before the module-level statements ran, "boot"
                        \* before DOMContentLoaded, "loading" while the handler
                        \* awaits loadPlatforms, "ready" after the handler;
                        \* "match"/"matched", "rewrite"/"rewritten" in the
                        \* specifications of the pure functions; the calls
                        \* made so far in those of repeated calls
    platformsData,      \* the registry: Object.entries(platformsData), in order
    localStorage,       \* [xgetDomain, dontShowSponsorModal]: what getItem returns
    xgetDomainInput,    \* [value |-> string, error |-> has class "error"]
    originalUrlInput,   \* value of the original-URL field
    convertedUrlInput,  \* value of the converted-URL field
    dom,                \* [resultHidden, errorHidden, hasContent, errorText]: the class
                        \* "hidden" of resultSection and of errorMessage, the class
                        \* "has-content" of converterSection, errorMessage.textContent
    platformStatus,     \* [text, key, dot]: platformName.textContent, platformDot.className
    pasteTimers,        \* number of pending paste timeouts (line 224)
    copyPending,        \* number of copyToClipboard calls waiting at line 725
    detectedPlatform,   \* the value detectPlatform last returned
    adjustedPath,       \* [key, path, out]: the last call of adjustPathForPlatform
    sponsorModal,       \* [hidden |-> has class "hidden", scheduled |-> the timeout
                        \* of line 201 was set]
    domainsGrid         \* "pending" until loadDomainsData put the catalog items
                        \* into the grid, then "loaded"; a load that fails leaves
                        \* no item to click, as if it stayed pending

vars == <<pc, platformsData, localStorage, xgetDomainInput, originalUrlInput,
          convertedUrlInput, dom, platformStatus, pasteTimers, copyPending,
          detectedPlatform, adjustedPath, sponsorModal, domainsGrid>>

uiVars == <<localStorage, xgetDomainInput, convertedUrlInput, dom,
            platformStatus, pasteTimers, copyPending, sponsorModal, domainsGrid>>

-----------------------------------------------------------------------------
(* Bounds of the model *)

MaxEntries == 3

-----------------------------------------------------------------------------
(* String literals of the source *)

H_ghcr == <<"g", "h", "c", "r", ".", "i", "o">>
H_github == <<"g", "i", "t", "h", "u", "b", ".", "c", "o", "m">>
P_v2_homebrew == <<"/", "v", "2", "/", "h", "o", "m", "e", "b", "r", "e", "w", "/">>
P_homebrew_slash == <<"/", "h", "o", "m", "e", "b", "r", "e", "w", "/">>
P_slash_blob_slash == <<"/", "b", "l", "o", "b", "/">>
P_raw_refs_heads == <<"/", "r", "a", "w", "/", "r", "e", "f", "s", "/", "h", "e", "a", "d", "s", "/">>
P_homebrew == <<"/", "h", "o", "m", "e", "b", "r", "e", "w">>
P_api == <<"/", "a", "p", "i">>
K_homebrew_api == <<"h", "o", "m", "e", "b", "r", "e", "w", "-", "a", "p", "i">>
DefaultXgetDomain == <<"h", "t", "t", "p", "s", ":", "/", "/", "x", "g", "e", "t", ".", "a", "1", "u", "0", "6", "h", "9", "f", "e", "9", "y", "5", "b", "o", "z", "b", "m", "g", "z", "3", ".", "q", "z", "z", ".", "i", "o">>
K_gh == <<"g", "h">>
K_homebrew == <<"h", "o", "m", "e", "b", "r", "e", "w">>
K_homebrew_bottles == <<"h", "o", "m", "e", "b", "r", "e", "w", "-", "b", "o", "t", "t", "l", "e", "s">>
K_cr_ghcr == <<"c", "r", "-", "g", "h", "c", "r">>
B_ghcr == <<"h", "t", "t", "p", "s", ":", "/", "/", "g", "h", "c", "r", ".", "i", "o">>
B_github == <<"h", "t", "t", "p", "s", ":", "/", "/", "g", "i", "t", "h", "u", "b", ".", "c", "o", "m">>
B_github_Homebrew == <<"h", "t", "t", "p", "s", ":", "/", "/", "g", "i", "t", "h", "u", "b", ".", "c", "o", "m", "/", "H", "o", "m", "e", "b", "r", "e", "w">>

-----------------------------------------------------------------------------
(* String.prototype operations *)

UpperLetters == <<"A", "B", "C", "D", "E", "F", "G", "H", "I", "J", "K", "L", "M",
                  "N", "O", "P", "Q", "R", "S", "T", "U", "V", "W", "X", "Y", "Z">>
LowerLetters == <<"a", "b", "c", "d", "e", "f", "g", "h", "i", "j", "k", "l", "m",
                  "n", "o", "p", "q", "r", "s", "t", "u", "v", "w", "x", "y", "z">>

UpperSet == {UpperLetters[k] : k \in 1..Len(UpperLetters)}
LowerTable ==
    [c \in UpperSet |-> LowerLetters[CHOOSE k \in 1..Len(UpperLetters) : UpperLetters[k] = c]]

LowerChar(c) == IF c \in UpperSet THEN LowerTable[c] ELSE c

ToLowerCase(s) == [i \in 1..Len(s) |-> LowerChar(s[i])]

StartsWith(s, p) == Len(p) <= Len(s) /\ SubSeq(s, 1, Len(p)) = p

EndsWith(s, p) == Len(p) <= Len(s) /\ SubSeq(s, Len(s) - Len(p) + 1, Len(s)) = p

Includes(s, p) == \E i \in 1..(Len(s) - Len(p) + 1) : SubSeq(s, i, i + Len(p) - 1) = p

\* The first index >= from whose character is in cs; Len(s) + 1 when there is none.
IndexOfAny(s, cs, from) ==
    LET hits == {i \in from..Len(s) : s[i] \in cs}
    IN  IF hits = {} THEN Len(s) + 1 ELSE CHOOSE i \in hits : \A j \in hits : i <= j

RECURSIVE Split(_, _)
Split(s, c) ==
    LET i == IndexOfAny(s, {c}, 1)
    IN  IF i > Len(s) THEN <<s>>
        ELSE <<SubSeq(s, 1, i - 1)>> \o Split(SubSeq(s, i + 1, Len(s)), c)

RECURSIVE Join(_, _)
Join(parts, sep) ==
    IF Len(parts) = 0 THEN <<>>
    ELSE IF Len(parts) = 1 THEN parts[1]
    ELSE parts[1] \o sep \o Join(Tail(parts), sep)

\* Array.prototype.slice(-2)
SliceLast2(parts) ==
    IF Len(parts) <= 2 THEN parts ELSE SubSeq(parts, Len(parts) - 1, Len(parts))

\* Array.prototype.slice(1)
SliceFrom1(parts) == SubSeq(parts, 2, Len(parts))

RECURSIVE Trim(_)
Trim(s) ==
    IF Len(s) = 0 THEN s
    ELSE IF s[1] = " " THEN Trim(Tail(s))
    ELSE IF s[Len(s)] = " " THEN Trim(SubSeq(s, 1, Len(s) - 1))
    ELSE s

-----------------------------------------------------------------------------
(* new URL(string): the parts the program reads *)

InvalidURL == [ok |-> FALSE, hostname |-> <<>>, pathname |-> <<>>, search |-> <<>>]

\* A value bound to a name: const name = value; body
With(value, Body(_)) == Body(value)

LowerSet == {LowerLetters[k] : k \in 1..Len(LowerLetters)}

Digits == {"0", "1", "2", "3", "4", "5", "6", "7", "8", "9"}

SchemeChars == LowerSet \cup UpperSet \cup Digits \cup {"+", "-", "."}

\* A scheme: a letter, then letters, digits, '+', '-', '.'
IsScheme(x) ==
    /\ Len(x) >= 1
    /\ x[1] \in LowerSet \cup UpperSet
    /\ \A i \in 1..Len(x) : x[i] \in SchemeChars

\* The special schemes other than file
SpecialSchemes ==
    { <<"h", "t", "t", "p">>, <<"h", "t", "t", "p", "s">>, <<"f", "t", "p">>,
      <<"w", "s">>, <<"w", "s", "s">> }

FileScheme == <<"f", "i", "l", "e">>

S_localhost == <<"l", "o", "c", "a", "l", "h", "o", "s", "t">>

HasSpace(host) == \E i \in 1..Len(host) : host[i] = " "

\* Percent-encoding of a path or a query: of the characters of the model
\* only the space is encoded
RECURSIVE PercentEncode(_)
PercentEncode(s) ==
    IF ~HasSpace(s) THEN s
    ELSE (IF Head(s) = " " THEN <<"%", "2", "0">> ELSE <<Head(s)>>)
            \o PercentEncode(Tail(s))

\* url.search: empty for no query and for a lone "?"
SearchOf(query) == IF Len(query) <= 1 THEN <<>> ELSE PercentEncode(query)

\* The first index that holds no '/'
SkipSlashes(rest) ==
    LET other == {i \in 1..Len(rest) : rest[i] # "/"}
    IN  IF other = {} THEN Len(rest) + 1
        ELSE CHOOSE i \in other : \A j \in other : i <= j

\* The URL of a host, a path and a query. A special scheme needs a host,
\* lower-cases it and has the path "/" at least; file allows an empty host and
\* turns localhost into it; any other scheme keeps the host as written and
\* allows an empty path. A space in the host is a failure everywhere.
UrlParts(kind, host, path, query) ==
    IF HasSpace(host) \/ (kind = "special" /\ Len(host) = 0)
    THEN InvalidURL
    ELSE [ok |-> TRUE,
          hostname |-> IF kind = "other" THEN host
                       ELSE IF kind = "file" /\ ToLowerCase(host) = S_localhost
                       THEN <<>>
                       ELSE ToLowerCase(host),
          pathname |-> IF Len(path) = 0 /\ kind # "other" THEN <<"/">>
                       ELSE PercentEncode(path),
          search |-> SearchOf(query)]

DigitValue(c) == CHOOSE n \in 0..9 : ToString(n) = c

RECURSIVE DecimalValue(_)
DecimalValue(digits) ==
    IF Len(digits) = 0 THEN 0
    ELSE 10 * DecimalValue(SubSeq(digits, 1, Len(digits) - 1))
            + DigitValue(digits[Len(digits)])

MaxPort == 65535

RECURSIVE StripZeros(_)
StripZeros(digits) ==
    IF Len(digits) >= 1 /\ Head(digits) = "0" THEN StripZeros(Tail(digits))
    ELSE digits

\* A port: digits, possibly none, of a value up to 65535
IsPort(port) ==
    /\ \A i \in 1..Len(port) : port[i] \in Digits
    /\ Len(StripZeros(port)) <= 5
    /\ DecimalValue(StripZeros(port)) <= MaxPort

\* The index of the last '@' of authority, 0 when it has none: what precedes
\* it is the user name and the password
LastAt(authority) ==
    LET ats == {i \in 1..Len(authority) : authority[i] = "@"}
    IN  IF ats = {} THEN 0 ELSE CHOOSE i \in ats : \A j \in ats : j <= i

\* host[:port] of a special or of another scheme; the host is missing when it
\* is empty and credentials or a ':' come with it
ParseHostPort(kind, hostport, bare, path, query) ==
    With(IndexOfAny(hostport, {":"}, 1), LAMBDA colon :
      IF \/ ~IsPort(SubSeq(hostport, colon + 1, Len(hostport)))
         \/ (colon = 1 /\ Len(hostport) >= 1)
         \/ (Len(hostport) = 0 /\ ~bare)
      THEN InvalidURL
      ELSE UrlParts(kind, SubSeq(hostport, 1, colon - 1), path, query))

\* The authority of a URL: a file host takes neither credentials nor a port
ParseHost(kind, authority, path, query) ==
    IF kind = "file"
    THEN IF \E i \in 1..Len(authority) : authority[i] \in {":", "@"}
         THEN InvalidURL
         ELSE UrlParts(kind, authority, path, query)
    ELSE ParseHostPort(kind,
                       SubSeq(authority, LastAt(authority) + 1, Len(authority)),
                       LastAt(authority) = 0, path, query)

\* The authority starts at hostAt and runs to the next '/' or '?'; the path
\* runs to the '?'
ParseAuthority(kind, rest, hostAt) ==
    With(IndexOfAny(rest, {"/", "?"}, hostAt), LAMBDA hostEnd :
      With(IndexOfAny(rest, {"?"}, hostEnd), LAMBDA queryAt :
        ParseHost(kind, SubSeq(rest, hostAt, hostEnd - 1),
                  SubSeq(rest, hostEnd, queryAt - 1),
                  SubSeq(rest, queryAt, Len(rest)))))

\* A URL without a host: a path list (encoded) or an opaque path (as written)
ParsePath(rest, encoded) ==
    With(IndexOfAny(rest, {"?"}, 1), LAMBDA queryAt :
      [ok |-> TRUE,
       hostname |-> <<>>,
       pathname |-> IF encoded THEN PercentEncode(SubSeq(rest, 1, queryAt - 1))
                    ELSE SubSeq(rest, 1, queryAt - 1),
       search |-> SearchOf(SubSeq(rest, queryAt, Len(rest)))])

\* After http:, https:, ftp:, ws:, wss: any run of '/' is skipped
ParseAfterScheme(rest) == ParseAuthority("special", rest, SkipSlashes(rest))

\* After file: "//" starts a host; otherwise the rest is the path, which
\* starts with '/'
ParseAfterFile(rest) ==
    IF StartsWith(rest, <<"/", "/">>) THEN ParseAuthority("file", rest, 3)
    ELSE IF StartsWith(rest, <<"/">>) THEN ParsePath(rest, TRUE)
    ELSE ParsePath(<<"/">> \o rest, TRUE)

\* After any other scheme: "//" starts a host, '/' a path; otherwise the
\* path is opaque
ParseAfterOther(rest) ==
    IF StartsWith(rest, <<"/", "/">>) THEN ParseAuthority("other", rest, 3)
    ELSE ParsePath(rest, StartsWith(rest, <<"/">>))

\* s is trimmed and its first ':' is at colon
ParseScheme(s, colon) ==
    IF colon > Len(s) \/ ~IsScheme(SubSeq(s, 1, colon - 1)) THEN InvalidURL
    ELSE IF ToLowerCase(SubSeq(s, 1, colon - 1)) \in SpecialSchemes
    THEN ParseAfterScheme(SubSeq(s, colon + 1, Len(s)))
    ELSE IF ToLowerCase(SubSeq(s, 1, colon - 1)) = FileScheme
    THEN ParseAfterFile(SubSeq(s, colon + 1, Len(s)))
    ELSE ParseAfterOther(SubSeq(s, colon + 1, Len(s)))

\* new URL(string), worked out from the characters of string
ParseString(string) ==
    With(Trim(string), LAMBDA s : ParseScheme(s, IndexOfAny(s, {":"}, 1)))

-----------------------------------------------------------------------------
(* createSampleUrl *)

\* The entry a for-of loop over Object.entries returns first: the lowest index
\* whose test holds; 0 when the loop falls through.
FirstIndex(hits) ==
    IF hits = {} THEN 0 ELSE CHOOSE i \in hits : \A j \in hits : i <= j

\* The texts of the .domain-url elements a click can land on
C_github == <<"g", "i", "t", "h", "u", "b", ".", "c", "o", "m">>
C_npmjs == <<"n", "p", "m", "j", "s", ".", "o", "r", "g">>
C_example == <<"e", "x", "a", "m", "p", "l", "e", ".", "o", "r", "g">>

CatalogDomains == { C_github, C_npmjs, C_example }

\* createSampleUrl: the sampleUrls table (lines 22-89), in the order of the source
S_example_path == <<"/", "e", "x", "a", "m", "p", "l", "e", "/", "p", "a", "t", "h">>
S_http_prefix == <<"h", "t", "t", "p">>
S_https_slashes == <<"h", "t", "t", "p", "s", ":", "/", "/">>

sampleUrls ==
    <<
       [key |-> <<"g", "i", "t", "h", "u", "b", ".", "c", "o", "m">>,
        url |-> <<"h", "t", "t", "p", "s", ":", "/", "/", "g", "i", "t", "h", "u", "b", ".", "c", "o", "m", "/", "m", "i", "c", "r", "o", "s", "o", "f", "t", "/", "v", "s", "c", "o", "d", "e">>],
       [key |-> <<"g", "i", "t", "l", "a", "b", ".", "c", "o", "m">>,
        url |-> <<"h", "t", "t", "p", "s", ":", "/", "/", "g", "i", "t", "l", "a", "b", ".", "c", "o", "m", "/", "g", "i", "t", "l", "a", "b", "-", "o", "r", "g", "/", "g", "i", "t", "l", "a", "b", "-", "c", "e">>],
       [key |-> <<"g", "i", "t", "e", "a", ".", "c", "o", "m">>,
        url |-> <<"h", "t", "t", "p", "s", ":", "/", "/", "g", "i", "t", "e", "a", ".", "c", "o", "m", "/", "g", "i", "t", "e", "a", "/", "g", "i", "t", "e", "a">>],
       [key |-> <<"c", "o", "d", "e", "b", "e", "r", "g", ".", "o", "r", "g">>,
        url |-> <<"h", "t", "t", "p", "s", ":", "/", "/", "c", "o", "d", "e", "b", "e", "r", "g", ".", "o", "r", "g", "/", "C", "o", "d", "e", "b", "e", "r", "g", "/", "C", "o", "m", "m", "u", "n", "i", "t", "y">>],
       [key |-> <<"s", "o", "u", "r", "c", "e", "f", "o", "r", "g", "e", ".", "n", "e", "t">>,
        url |-> <<"h", "t", "t", "p", "s", ":", "/", "/", "s", "o", "u", "r", "c", "e", "f", "o", "r", "g", "e", ".", "n", "e", "t", "/", "p", "r", "o", "j", "e", "c", "t", "s", "/", "s", "e", "v", "e", "n", "z", "i", "p", "/">>],
       [key |-> <<"a", "n", "d", "r", "o", "i", "d", ".", "g", "o", "o", "g", "l", "e", "s", "o", "u", "r", "c", "e", ".", "c", "o", "m">>,
        url |-> <<"h", "t", "t", "p", "s", ":", "/", "/", "a", "n", "d", "r", "o", "i", "d", ".", "g", "o", "o", "g", "l", "e", "s", "o", "u", "r", "c", "e", ".", "c", "o", "m", "/", "p", "l", "a", "t", "f", "o", "r", "m", "/", "f", "r", "a", "m", "e", "w", "o", "r", "k", "s", "/", "b", "a", "s", "e">>],
       [key |-> <<"h", "u", "g", "g", "i", "n", "g", "f", "a", "c", "e", ".", "c", "o">>,
        url |-> <<"h", "t", "t", "p", "s", ":", "/", "/", "h", "u", "g", "g", "i", "n", "g", "f", "a", "c", "e", ".", "c", "o", "/", "f", "a", "c", "e", "b", "o", "o", "k", "/", "o", "p", "t", "-", "3", "5", "0", "m">>],
       [key |-> <<"c", "i", "v", "i", "t", "a", "i", ".", "c", "o", "m">>,
        url |-> <<"h", "t", "t", "p", "s", ":", "/", "/", "c", "i", "v", "i", "t", "a", "i", ".", "c", "o", "m", "/", "m", "o", "d", "e", "l", "s", "/", "1", "2", "3", "4", "5", "/", "e", "x", "a", "m", "p", "l", "e", "-", "m", "o", "d", "e", "l">>],
       [key |-> <<"r", "e", "g", "i", "s", "t", "r", "y", ".", "n", "p", "m", "j", "s", ".", "o", "r", "g">>,
        url |-> <<"h", "t", "t", "p", "s", ":", "/", "/", "r", "e", "g", "i", "s", "t", "r", "y", ".", "n", "p", "m", "j", "s", ".", "o", "r", "g", "/", "r", "e", "a", "c", "t">>],
       [key |-> <<"p", "y", "p", "i", ".", "o", "r", "g">>,
        url |-> <<"h", "t", "t", "p", "s", ":", "/", "/", "p", "y", "p", "i", ".", "o", "r", "g", "/", "p", "r", "o", "j", "e", "c", "t", "/", "d", "j", "a", "n", "g", "o", "/">>],
       [key |-> <<"f", "i", "l", "e", "s", ".", "p", "y", "t", "h", "o", "n", "h", "o", "s", "t", "e", "d", ".", "o", "r", "g">>,
        url |-> <<"h", "t", "t", "p", "s", ":", "/", "/", "f", "i", "l", "e", "s", ".", "p", "y", "t", "h", "o", "n", "h", "o", "s", "t", "e", "d", ".", "o", "r", "g", "/", "p", "a", "c", "k", "a", "g", "e", "s", "/", "s", "o", "u", "r", "c", "e", "/", "d", "/", "d", "j", "a", "n", "g", "o", "/", "d", "j", "a", "n", "g", "o", "-", "4", ".", "2", ".", "0", ".", "t", "a", "r", ".", "g", "z">>],
       [key |-> <<"r", "e", "p", "o", ".", "a", "n", "a", "c", "o", "n", "d", "a", ".", "c", "o", "m">>,
        url |-> <<"h", "t", "t", "p", "s", ":", "/", "/", "r", "e", "p", "o", ".", "a", "n", "a", "c", "o", "n", "d", "a", ".", "c", "o", "m", "/", "a", "r", "c", "h", "i", "v", "e", "/", "A", "n", "a", "c", "o", "n", "d", "a", "3", "-", "2", "0", "2", "3", ".", "0", "9", "-", "1", "-", "W", "i", "n", "d", "o", "w", "s", "-", "x", "8", "6", "_", "6", "4", ".", "e", "x", "e">>],
       [key |-> <<"c", "o", "n", "d", "a", ".", "a", "n", "a", "c", "o", "n", "d", "a", ".", "o", "r", "g">>,
        url |-> <<"h", "t", "t", "p", "s", ":", "/", "/", "c", "o", "n", "d", "a", ".", "a", "n", "a", "c", "o", "n", "d", "a", ".", "o", "r", "g", "/", "c", "o", "n", "d", "a", "-", "f", "o", "r", "g", "e", "/", "l", "i", "n", "u", "x", "-", "6", "4">>],
       [key |-> <<"r", "e", "p", "o", "1", ".", "m", "a", "v", "e", "n", ".", "o", "r", "g">>,
        url |-> <<"h", "t", "t", "p", "s", ":", "/", "/", "r", "e", "p", "o", "1", ".", "m", "a", "v", "e", "n", ".", "o", "r", "g", "/", "m", "a", "v", "e", "n", "2", "/", "o", "r", "g", "/", "s", "p", "r", "i", "n", "g", "f", "r", "a", "m", "e", "w", "o", "r", "k", "/", "s", "p", "r", "i", "n", "g", "-", "c", "o", "r", "e", "/", "5", ".", "3", ".", "2", "3", "/", "s", "p", "r", "i", "n", "g", "-", "c", "o", "r", "e", "-", "5", ".", "3", ".", "2", "3", ".", "j", "a", "r">>],
       [key |-> <<"d", "o", "w", "n", "l", "o", "a", "d", "s", ".", "a", "p", "a", "c", "h", "e", ".", "o", "r", "g">>,
        url |-> <<"h", "t", "t", "p", "s", ":", "/", "/", "d", "o", "w", "n", "l", "o", "a", "d", "s", ".", "a", "p", "a", "c", "h", "e", ".", "o", "r", "g", "/", "t", "o", "m", "c", "a", "t", "/", "t", "o", "m", "c", "a", "t", "-", "9", "/", "v", "9", ".", "0", ".", "8", "0", "/", "b", "i", "n", "/", "a", "p", "a", "c", "h", "e", "-", "t", "o", "m", "c", "a", "t", "-", "9", ".", "0", ".", "8", "0", "-", "w", "i", "n", "d", "o", "w", "s", "-", "x", "6", "4", ".", "z", "i", "p">>],
       [key |-> <<"p", "l", "u", "g", "i", "n", "s", ".", "g", "r", "a", "d", "l", "e", ".", "o", "r", "g">>,
        url |-> <<"h", "t", "t", "p", "s", ":", "/", "/", "p", "l", "u", "g", "i", "n", "s", ".", "g", "r", "a", "d", "l", "e", ".", "o", "r", "g", "/", "p", "l", "u", "g", "i", "n", "/", "o", "r", "g", ".", "s", "p", "r", "i", "n", "g", "f", "r", "a", "m", "e", "w", "o", "r", "k", ".", "b", "o", "o", "t">>],
       [key |-> <<"r", "u", "b", "y", "g", "e", "m", "s", ".", "o", "r", "g">>,
        url |-> <<"h", "t", "t", "p", "s", ":", "/", "/", "r", "u", "b", "y", "g", "e", "m", "s", ".", "o", "r", "g", "/", "g", "e", "m", "s", "/", "r", "a", "i", "l", "s">>],
       [key |-> <<"c", "r", "a", "n", ".", "r", "-", "p", "r", "o", "j", "e", "c", "t", ".", "o", "r", "g">>,
        url |-> <<"h", "t", "t", "p", "s", ":", "/", "/", "c", "r", "a", "n", ".", "r", "-", "p", "r", "o", "j", "e", "c", "t", ".", "o", "r", "g", "/", "w", "e", "b", "/", "p", "a", "c", "k", "a", "g", "e", "s", "/", "g", "g", "p", "l", "o", "t", "2", "/", "i", "n", "d", "e", "x", ".", "h", "t", "m", "l">>],
       [key |-> <<"w", "w", "w", ".", "c", "p", "a", "n", ".", "o", "r", "g">>,
        url |-> <<"h", "t", "t", "p", "s", ":", "/", "/", "w", "w", "w", ".", "c", "p", "a", "n", ".", "o", "r", "g", "/", "m", "o", "d", "u", "l", "e", "s", "/", "b", "y", "-", "m", "o", "d", "u", "l", "e", "/", "D", "B", "I", "/", "D", "B", "I", ".", "p", "m">>],
       [key |-> <<"t", "u", "g", ".", "c", "t", "a", "n", ".", "o", "r", "g">>,
        url |-> <<"h", "t", "t", "p", "s", ":", "/", "/", "t", "u", "g", ".", "c", "t", "a", "n", ".", "o", "r", "g", "/", "m", "a", "c", "r", "o", "s", "/", "l", "a", "t", "e", "x", "/", "b", "a", "s", "e", "/">>],
       [key |-> <<"p", "r", "o", "x", "y", ".", "g", "o", "l", "a", "n", "g", ".", "o", "r", "g">>,
        url |-> <<"h", "t", "t", "p", "s", ":", "/", "/", "p", "r", "o", "x", "y", ".", "g", "o", "l", "a", "n", "g", ".", "o", "r", "g", "/", "g", "i", "t", "h", "u", "b", ".", "c", "o", "m", "/", "g", "i", "n", "-", "g", "o", "n", "i", "c", "/", "g", "i", "n", "/", "@", "v", "/", "v", "1", ".", "9", ".", "0", ".", "m", "o", "d">>],
       [key |-> <<"a", "p", "i", ".", "n", "u", "g", "e", "t", ".", "o", "r", "g">>,
        url |-> <<"h", "t", "t", "p", "s", ":", "/", "/", "a", "p", "i", ".", "n", "u", "g", "e", "t", ".", "o", "r", "g", "/", "v", "3", "-", "f", "l", "a", "t", "c", "o", "n", "t", "a", "i", "n", "e", "r", "/", "m", "i", "c", "r", "o", "s", "o", "f", "t", ".", "e", "x", "t", "e", "n", "s", "i", "o", "n", "s", ".", "h", "o", "s", "t", "i", "n", "g", ".", "a", "b", "s", "t", "r", "a", "c", "t", "i", "o", "n", "s", "/", "6", ".", "0", ".", "0", "/", "m", "i", "c", "r", "o", "s", "o", "f", "t", ".", "e", "x", "t", "e", "n", "s", "i", "o", "n", "s", ".", "h", "o", "s", "t", "i", "n", "g", ".", "a", "b", "s", "t", "r", "a", "c", "t", "i", "o", "n", "s", ".", "6", ".", "0", ".", "0", ".", "n", "u", "p", "k", "g">>],
       [key |-> <<"c", "r", "a", "t", "e", "s", ".", "i", "o">>,
        url |-> <<"h", "t", "t", "p", "s", ":", "/", "/", "c", "r", "a", "t", "e", "s", ".", "i", "o", "/", "c", "r", "a", "t", "e", "s", "/", "s", "e", "r", "d", "e">>],
       [key |-> <<"r", "e", "p", "o", ".", "p", "a", "c", "k", "a", "g", "i", "s", "t", ".", "o", "r", "g">>,
        url |-> <<"h", "t", "t", "p", "s", ":", "/", "/", "r", "e", "p", "o", ".", "p", "a", "c", "k", "a", "g", "i", "s", "t", ".", "o", "r", "g", "/", "p", "/", "l", "a", "r", "a", "v", "e", "l", "/", "l", "a", "r", "a", "v", "e", "l", ".", "j", "s", "o", "n">>],
       [key |-> <<"d", "e", "b", ".", "d", "e", "b", "i", "a", "n", ".", "o", "r", "g">>,
        url |-> <<"h", "t", "t", "p", "s", ":", "/", "/", "d", "e", "b", ".", "d", "e", "b", "i", "a", "n", ".", "o", "r", "g", "/", "d", "e", "b", "i", "a", "n", "/", "d", "i", "s", "t", "s", "/", "s", "t", "a", "b", "l", "e", "/", "m", "a", "i", "n", "/", "b", "i", "n", "a", "r", "y", "-", "a", "m", "d", "6", "4", "/", "P", "a", "c", "k", "a", "g", "e", "s", ".", "g", "z">>],
       [key |-> <<"a", "r", "c", "h", "i", "v", "e", ".", "u", "b", "u", "n", "t", "u", ".", "c", "o", "m">>,
        url |-> <<"h", "t", "t", "p", "s", ":", "/", "/", "a", "r", "c", "h", "i", "v", "e", ".", "u", "b", "u", "n", "t", "u", ".", "c", "o", "m", "/", "u", "b", "u", "n", "t", "u", "/", "d", "i", "s", "t", "s", "/", "j", "a", "m", "m", "y", "/", "m", "a", "i", "n", "/", "b", "i", "n", "a", "r", "y", "-", "a", "m", "d", "6", "4", "/">>],
       [key |-> <<"d", "l", ".", "f", "e", "d", "o", "r", "a", "p", "r", "o", "j", "e", "c", "t", ".", "o", "r", "g">>,
        url |-> <<"h", "t", "t", "p", "s", ":", "/", "/", "d", "l", ".", "f", "e", "d", "o", "r", "a", "p", "r", "o", "j", "e", "c", "t", ".", "o", "r", "g", "/", "p", "u", "b", "/", "f", "e", "d", "o", "r", "a", "/", "l", "i", "n", "u", "x", "/", "r", "e", "l", "e", "a", "s", "e", "s", "/", "3", "8", "/", "E", "v", "e", "r", "y", "t", "h", "i", "n", "g", "/", "x", "8", "6", "_", "6", "4", "/", "o", "s", "/">>],
       [key |-> <<"d", "o", "w", "n", "l", "o", "a", "d", ".", "r", "o", "c", "k", "y", "l", "i", "n", "u", "x", ".", "o", "r", "g">>,
        url |-> <<"h", "t", "t", "p", "s", ":", "/", "/", "d", "o", "w", "n", "l", "o", "a", "d", ".", "r", "o", "c", "k", "y", "l", "i", "n", "u", "x", ".", "o", "r", "g", "/", "p", "u", "b", "/", "r", "o", "c", "k", "y", "/", "9", ".", "1", "/", "B", "a", "s", "e", "O", "S", "/", "x", "8", "6", "_", "6", "4", "/", "o", "s", "/">>],
       [key |-> <<"d", "o", "w", "n", "l", "o", "a", "d", ".", "o", "p", "e", "n", "s", "u", "s", "e", ".", "o", "r", "g">>,
        url |-> <<"h", "t", "t", "p", "s", ":", "/", "/", "d", "o", "w", "n", "l", "o", "a", "d", ".", "o", "p", "e", "n", "s", "u", "s", "e", ".", "o", "r", "g", "/", "d", "i", "s", "t", "r", "i", "b", "u", "t", "i", "o", "n", "/", "l", "e", "a", "p", "/", "1", "5", ".", "4", "/", "r", "e", "p", "o", "/", "o", "s", "s", "/">>],
       [key |-> <<"g", "e", "o", ".", "m", "i", "r", "r", "o", "r", ".", "p", "k", "g", "b", "u", "i", "l", "d", ".", "c", "o", "m">>,
        url |-> <<"h", "t", "t", "p", "s", ":", "/", "/", "g", "e", "o", ".", "m", "i", "r", "r", "o", "r", ".", "p", "k", "g", "b", "u", "i", "l", "d", ".", "c", "o", "m", "/", "c", "o", "r", "e", "/", "o", "s", "/", "x", "8", "6", "_", "6", "4", "/">>],
       [key |-> <<"a", "r", "x", "i", "v", ".", "o", "r", "g">>,
        url |-> <<"h", "t", "t", "p", "s", ":", "/", "/", "a", "r", "x", "i", "v", ".", "o", "r", "g", "/", "a", "b", "s", "/", "2", "3", "0", "1", ".", "0", "7", "0", "4", "1">>],
       [key |-> <<"f", "-", "d", "r", "o", "i", "d", ".", "o", "r", "g">>,
        url |-> <<"h", "t", "t", "p", "s", ":", "/", "/", "f", "-", "d", "r", "o", "i", "d", ".", "o", "r", "g", "/", "r", "e", "p", "o", "/", "c", "o", "m", ".", "g", "i", "t", "h", "u", "b", ".", "l", "i", "b", "r", "e", "t", "u", "b", "e", "_", "7", "2", "6", ".", "a", "p", "k">>],
       [key |-> <<"u", "p", "d", "a", "t", "e", "s", ".", "j", "e", "n", "k", "i", "n", "s", ".", "i", "o">>,
        url |-> <<"h", "t", "t", "p", "s", ":", "/", "/", "u", "p", "d", "a", "t", "e", "s", ".", "j", "e", "n", "k", "i", "n", "s", ".", "i", "o", "/", "d", "o", "w", "n", "l", "o", "a", "d", "/", "p", "l", "u", "g", "i", "n", "s", "/", "w", "a", "r", "n", "i", "n", "g", "s", "-", "n", "g", "/">>],
       [key |-> <<"a", "p", "i", ".", "o", "p", "e", "n", "a", "i", ".", "c", "o", "m">>,
        url |-> <<"h", "t", "t", "p", "s", ":", "/", "/", "a", "p", "i", ".", "o", "p", "e", "n", "a", "i", ".", "c", "o", "m", "/", "v", "1", "/", "c", "h", "a", "t", "/", "c", "o", "m", "p", "l", "e", "t", "i", "o", "n", "s">>],
       [key |-> <<"a", "p", "i", ".", "a", "n", "t", "h", "r", "o", "p", "i", "c", ".", "c", "o", "m">>,
        url |-> <<"h", "t", "t", "p", "s", ":", "/", "/", "a", "p", "i", ".", "a", "n", "t", "h", "r", "o", "p", "i", "c", ".", "c", "o", "m", "/", "v", "1", "/", "m", "e", "s", "s", "a", "g", "e", "s">>],
       [key |-> <<"r", "e", "g", "i", "s", "t", "r", "y", "-", "1", ".", "d", "o", "c", "k", "e", "r", ".", "i", "o">>,
        url |-> <<"h", "t", "t", "p", "s", ":", "/", "/", "r", "e", "g", "i", "s", "t", "r", "y", "-", "1", ".", "d", "o", "c", "k", "e", "r", ".", "i", "o", "/", "v", "2", "/", "l", "i", "b", "r", "a", "r", "y", "/", "u", "b", "u", "n", "t", "u", "/", "t", "a", "g", "s", "/", "l", "i", "s", "t">>],
       [key |-> <<"q", "u", "a", "y", ".", "i", "o">>,
        url |-> <<"h", "t", "t", "p", "s", ":", "/", "/", "q", "u", "a", "y", ".", "i", "o", "/", "r", "e", "p", "o", "s", "i", "t", "o", "r", "y", "/", "p", "r", "o", "m", "e", "t", "h", "e", "u", "s", "/", "p", "r", "o", "m", "e", "t", "h", "e", "u", "s">>],
       [key |-> <<"g", "c", "r", ".", "i", "o">>,
        url |-> <<"h", "t", "t", "p", "s", ":", "/", "/", "g", "c", "r", ".", "i", "o", "/", "g", "o", "o", "g", "l", "e", "-", "c", "o", "n", "t", "a", "i", "n", "e", "r", "s", "/", "b", "u", "s", "y", "b", "o", "x">>],
       [key |-> <<"m", "c", "r", ".", "m", "i", "c", "r", "o", "s", "o", "f", "t", ".", "c", "o", "m">>,
        url |-> <<"h", "t", "t", "p", "s", ":", "/", "/", "m", "c", "r", ".", "m", "i", "c", "r", "o", "s", "o", "f", "t", ".", "c", "o", "m", "/", "v", "2", "/", "m", "s", "s", "q", "l", "/", "s", "e", "r", "v", "e", "r", "/", "t", "a", "g", "s", "/", "l", "i", "s", "t">>],
       [key |-> <<"p", "u", "b", "l", "i", "c", ".", "e", "c", "r", ".", "a", "w", "s">>,
        url |-> <<"h", "t", "t", "p", "s", ":", "/", "/", "p", "u", "b", "l", "i", "c", ".", "e", "c", "r", ".", "a", "w", "s", "/", "n", "g", "i", "n", "x", "/", "n", "g", "i", "n", "x">>],
       [key |-> <<"r", "e", "l", "e", "a", "s", "e", "-", "a", "s", "s", "e", "t", "s", ".", "g", "i", "t", "h", "u", "b", "u", "s", "e", "r", "c", "o", "n", "t", "e", "n", "t", ".", "c", "o", "m">>,
        url |-> <<"h", "t", "t", "p", "s", ":", "/", "/", "r", "e", "l", "e", "a", "s", "e", "-", "a", "s", "s", "e", "t", "s", ".", "g", "i", "t", "h", "u", "b", "u", "s", "e", "r", "c", "o", "n", "t", "e", "n", "t", ".", "c", "o", "m", "/", "1", "2", "3", "4", "5", "6", "7", "8", "/", "r", "e", "l", "e", "a", "s", "e", "s", "/", "d", "o", "w", "n", "l", "o", "a", "d", "/", "v", "1", ".", "0", ".", "0", "/", "f", "i", "l", "e", ".", "z", "i", "p">>],
       [key |-> <<"r", "a", "w", ".", "g", "i", "t", "h", "u", "b", "u", "s", "e", "r", "c", "o", "n", "t", "e", "n", "t", ".", "c", "o", "m">>,
        url |-> <<"h", "t", "t", "p", "s", ":", "/", "/", "r", "a", "w", ".", "g", "i", "t", "h", "u", "b", "u", "s", "e", "r", "c", "o", "n", "t", "e", "n", "t", ".", "c", "o", "m", "/", "g", "i", "t", "h", "u", "b", "/", "g", "i", "t", "h", "u", "b", "/", "m", "a", "i", "n", "/", "R", "E", "A", "D", "M", "E", ".", "m", "d">>],
       [key |-> <<"c", "l", "o", "u", "d", "f", "l", "a", "r", "e", "-", "d", "n", "s", ".", "c", "o", "m">>,
        url |-> <<"h", "t", "t", "p", "s", ":", "/", "/", "c", "l", "o", "u", "d", "f", "l", "a", "r", "e", "-", "d", "n", "s", ".", "c", "o", "m", "/", "d", "n", "s", "-", "q", "u", "e", "r", "y">>],
       [key |-> <<"d", "n", "s", ".", "g", "o", "o", "g", "l", "e">>,
        url |-> <<"h", "t", "t", "p", "s", ":", "/", "/", "d", "n", "s", ".", "g", "o", "o", "g", "l", "e", "/", "r", "e", "s", "o", "l", "v", "e", "?", "n", "a", "m", "e", "=", "e", "x", "a", "m", "p", "l", "e", ".", "c", "o", "m">>],
       [key |-> <<"d", "n", "s", ".", "q", "u", "a", "d", "9", ".", "n", "e", "t">>,
        url |-> <<"h", "t", "t", "p", "s", ":", "/", "/", "d", "n", "s", ".", "q", "u", "a", "d", "9", ".", "n", "e", "t", ":", "5", "0", "5", "3", "/", "d", "n", "s", "-", "q", "u", "e", "r", "y">>],
       [key |-> <<"d", "n", "s", ".", "n", "e", "x", "t", "d", "n", "s", ".", "i", "o">>,
        url |-> <<"h", "t", "t", "p", "s", ":", "/", "/", "d", "n", "s", ".", "n", "e", "x", "t", "d", "n", "s", ".", "i", "o", "/", "r", "e", "s", "o", "l", "v", "e">>]
    >>

GenericSampleUrl(domain) ==
    IF StartsWith(domain, S_http_prefix) THEN domain \o S_example_path
    ELSE S_https_slashes \o domain \o S_example_path

PartialSampleUrl(domain, partial) ==
    IF partial # 0 THEN sampleUrls[partial].url ELSE GenericSampleUrl(domain)

createSampleUrl(domain) ==
    With(FirstIndex({i \in 1..Len(sampleUrls) : sampleUrls[i].key = domain}),
         LAMBDA exact :
           IF exact # 0 THEN sampleUrls[exact].url
           ELSE PartialSampleUrl(domain,
                   FirstIndex({i \in 1..Len(sampleUrls) :
                                  \/ Includes(domain, sampleUrls[i].key)
                                  \/ Includes(sampleUrls[i].key, domain)})))

\* const sampleUrl = createSampleUrl(domainUrl), for the texts of the catalog
sampleUrl == [domainUrl \in CatalogDomains |-> createSampleUrl(domainUrl)]

-----------------------------------------------------------------------------
(* Inputs: registry entries and target strings *)

K_npm == <<"n", "p", "m">>
K_npm_www == <<"n", "p", "m", "-", "w", "w", "w">>
K_npm_registry == <<"n", "p", "m", "-", "r", "e", "g", "i", "s", "t", "r", "y">>
K_broken == <<"b", "r", "o", "k", "e", "n">>
K_local == <<"l", "o", "c", "a", "l">>
K_hostless == <<"h", "o", "s", "t", "l", "e", "s", "s">>
B_npm == <<"h", "t", "t", "p", "s", ":", "/", "/", "n", "p", "m", "j", "s", ".", "o", "r", "g">>
B_npm_www == <<"h", "t", "t", "p", "s", ":", "/", "/", "w", "w", "w", ".", "n", "p", "m", "j", "s", ".", "o", "r", "g">>
B_npm_registry == <<"h", "t", "t", "p", "s", ":", "/", "/", "r", "e", "g", "i", "s", "t", "r", "y", ".", "n", "p", "m", "j", "s", ".", "o", "r", "g">>
B_broken == <<"r", "e", "g", "i", "s", "t", "r", "y", ".", "n", "p", "m", "j", "s", ".", "o", "r", "g">>
B_hostless == <<"n", "p", "m", "j", "s", ".", "o", "r", "g", ":", "4", "4", "3">>
B_local == <<"h", "t", "t", "p", ":", "/", "/", "l", "o", "c", "a", "l", "h", "o", "s", "t">>
U_gh_Homebrew_brew == <<"h", "t", "t", "p", "s", ":", "/", "/", "g", "i", "t", "h", "u", "b", ".", "c", "o", "m", "/", "H", "o", "m", "e", "b", "r", "e", "w", "/", "b", "r", "e", "w">>
U_gh_homebrew_core == <<"h", "t", "t", "p", "s", ":", "/", "/", "g", "i", "t", "h", "u", "b", ".", "c", "o", "m", "/", "h", "o", "m", "e", "b", "r", "e", "w", "/", "c", "o", "r", "e">>
U_gh_Homebrew == <<"h", "t", "t", "p", "s", ":", "/", "/", "g", "i", "t", "h", "u", "b", ".", "c", "o", "m", "/", "H", "o", "m", "e", "b", "r", "e", "w">>
U_gh_linux == <<"h", "t", "t", "p", "s", ":", "/", "/", "g", "i", "t", "h", "u", "b", ".", "c", "o", "m", "/", "t", "o", "r", "v", "a", "l", "d", "s", "/", "l", "i", "n", "u", "x">>
U_GH_linux == <<"h", "t", "t", "p", "s", ":", "/", "/", "G", "i", "t", "H", "u", "b", ".", "c", "o", "m", "/", "t", "o", "r", "v", "a", "l", "d", "s", "/", "l", "i", "n", "u", "x">>
U_api_gh == <<"h", "t", "t", "p", "s", ":", "/", "/", "a", "p", "i", ".", "g", "i", "t", "h", "u", "b", ".", "c", "o", "m", "/", "r", "e", "p", "o", "s">>
U_ghcr_bottle == <<"h", "t", "t", "p", "s", ":", "/", "/", "g", "h", "c", "r", ".", "i", "o", "/", "v", "2", "/", "h", "o", "m", "e", "b", "r", "e", "w", "/", "c", "o", "r", "e", "/", "w", "g", "e", "t">>
U_ghcr_nginx == <<"h", "t", "t", "p", "s", ":", "/", "/", "g", "h", "c", "r", ".", "i", "o", "/", "v", "2", "/", "l", "i", "b", "r", "a", "r", "y", "/", "n", "g", "i", "n", "x">>
U_ghcr_inner == <<"h", "t", "t", "p", "s", ":", "/", "/", "g", "h", "c", "r", ".", "i", "o", "/", "x", "/", "v", "2", "/", "h", "o", "m", "e", "b", "r", "e", "w", "/", "y">>
U_pkg_ghcr == <<"h", "t", "t", "p", "s", ":", "/", "/", "p", "k", "g", ".", "g", "h", "c", "r", ".", "i", "o", "/", "v", "2">>
U_npm == <<"h", "t", "t", "p", "s", ":", "/", "/", "n", "p", "m", "j", "s", ".", "o", "r", "g">>
U_npm_registry == <<"h", "t", "t", "p", "s", ":", "/", "/", "r", "e", "g", "i", "s", "t", "r", "y", ".", "n", "p", "m", "j", "s", ".", "o", "r", "g", "/", "r", "e", "a", "c", "t">>
U_npm_cdn == <<"h", "t", "t", "p", "s", ":", "/", "/", "c", "d", "n", ".", "n", "p", "m", "j", "s", ".", "o", "r", "g", "/", "r", "e", "a", "c", "t">>
U_xnpm == <<"h", "t", "t", "p", "s", ":", "/", "/", "x", "n", "p", "m", "j", "s", ".", "o", "r", "g", "/", "r", "e", "a", "c", "t">>
U_localhost == <<"h", "t", "t", "p", ":", "/", "/", "l", "o", "c", "a", "l", "h", "o", "s", "t", "/", "a", "p", "p">>
U_sub_localhost == <<"h", "t", "t", "p", ":", "/", "/", "d", "e", "v", ".", "l", "o", "c", "a", "l", "h", "o", "s", "t", "/", "a", "p", "p">>
U_intranet == <<"h", "t", "t", "p", ":", "/", "/", "i", "n", "t", "r", "a", "n", "e", "t", "/", "a", "p", "p">>
U_ftp_gh == <<"f", "t", "p", ":", "/", "/", "G", "i", "t", "H", "u", "b", ".", "c", "o", "m", ":", "2", "1", "/", "a", " ", "b", "?", "c", " ", "d">>
U_git_npm == <<"g", "i", "t", ":", "/", "/", "n", "p", "m", "j", "s", ".", "o", "r", "g">>
U_mailto == <<"m", "a", "i", "l", "t", "o", ":", "d", "e", "v">>
U_noscheme == <<"g", "i", "t", "h", "u", "b", ".", "c", "o", "m", "/", "t", "o", "r", "v", "a", "l", "d", "s", "/", "l", "i", "n", "u", "x">>
U_words == <<"n", "o", "t", " ", "a", " ", "u", "r", "l">>

Entry(key, baseUrl) == [key |-> key, baseUrl |-> baseUrl]

\* Entries a registry is drawn from: keys are distinct; the first three have a
\* hostname with a special-cased route (two of them the same one), three
\* hostnames share the last two
\* labels (one of them a suffix of the others), one is a single label, one
\* base URL does not parse, one parses without a host (its "scheme" is
\* npmjs.org, its hostname is empty).
Catalog ==
    { Entry(K_gh, B_github), Entry(K_homebrew, B_github_Homebrew),
      Entry(K_homebrew_bottles, B_ghcr),
      Entry(K_npm, B_npm), Entry(K_npm_www, B_npm_www),
      Entry(K_npm_registry, B_npm_registry),
      Entry(K_broken, B_broken), Entry(K_local, B_local),
      Entry(K_hostless, B_hostless) }

RECURSIVE Arrangements(_)
Arrangements(n) ==
    IF n = 0 THEN {<<>>}
    ELSE LET shorter == Arrangements(n - 1)
         IN  shorter \cup
             { Append(r, e) : r \in {q \in shorter : Len(q) = n - 1},
                              e \in Catalog }

NoDuplicate(r) == \A i, j \in 1..Len(r) : i # j => r[i] # r[j]

Registries == {r \in Arrangements(MaxEntries) : NoDuplicate(r)}

ValidTargets ==
    { U_gh_Homebrew_brew, U_gh_homebrew_core, U_gh_Homebrew, U_gh_linux, U_GH_linux,
      U_api_gh, U_ghcr_bottle, U_ghcr_nginx, U_ghcr_inner, U_pkg_ghcr,
      U_npm, U_npm_registry, U_npm_cdn, U_xnpm,
      U_localhost, U_sub_localhost, U_intranet,
      U_ftp_gh, U_git_npm, U_mailto }

InvalidTargets == { U_noscheme, U_words }

Targets == ValidTargets \cup InvalidTargets

-----------------------------------------------------------------------------
(* Inputs: what the page loads, what is typed into its two fields *)

U_blob_branch == <<"h", "t", "t", "p", "s", ":", "/", "/", "g", "i", "t", "h", "u", "b", ".", "c", "o", "m", "/", "o", "w", "n", "e", "r", "/", "r", "e", "p", "o", "/", "b", "l", "o", "b", "/", "m", "a", "i", "n">>
U_npm_padded == <<" ", "h", "t", "t", "p", "s", ":", "/", "/", "n", "p", "m", "j", "s", ".", "o", "r", "g", "/", "r", "e", "a", "c", "t", "?", "v", "=", "1", " ", "2", " ">>
D_gateway == <<"h", "t", "t", "p", "s", ":", "/", "/", "g", "w", ".", "e", "x", "a", "m", "p", "l", "e">>
D_gateway_slash == <<"h", "t", "t", "p", "s", ":", "/", "/", "g", "w", ".", "e", "x", "a", "m", "p", "l", "e", "/">>
D_invalid == <<"g", "w", ".", "e", "x", "a", "m", "p", "l", "e">>
D_gateway_slashes == D_gateway \o <<"/", "/">>
U_blank == <<" ", " ">>
U_git_query == <<"g", "i", "t", ":", "/", "/", "g", "i", "t", "h", "u", "b", ".", "c", "o", "m", "?", "x", "=", "1">>

\* What import("./platforms.js") can deliver: nothing (the import fails or the
\* object is empty), the usual registry, a registry with a base URL that does
\* not parse.
LoadOutcomes ==
    { <<>>,
      <<Entry(K_gh, B_github), Entry(K_homebrew, B_github_Homebrew),
        Entry(K_homebrew_bottles, B_ghcr), Entry(K_npm_registry, B_npm_registry)>>,
      <<Entry(K_broken, B_broken), Entry(K_npm, B_npm)>> }

UrlFieldValues ==
    { U_blank, U_blob_branch, U_npm_padded, U_noscheme, U_git_query }

DomainFieldValues == { <<>>, D_gateway_slashes, D_invalid }

-----------------------------------------------------------------------------
(* new URL(string) and isValidUrl *)

\* The strings the specifications hand to new URL: the field texts as typed
\* and trimmed, the sample URLs, the stored and the default gateway domain,
\* the base URLs of the entries and the targets
KnownStrings ==
    UrlFieldValues \cup { Trim(v) : v \in UrlFieldValues }
       \cup { Trim(v) : v \in DomainFieldValues }
       \cup { sampleUrl[domainUrl] : domainUrl \in CatalogDomains }
       \cup { D_gateway_slash, DefaultXgetDomain }
       \cup { e.baseUrl : e \in Catalog } \cup Targets

\* ParseString for each of them, worked out once
ParsedKnown == [string \in KnownStrings |-> ParseString(string)]

\* new URL(string): ok is FALSE when the constructor throws
ParseURL(string) ==
    IF string \in KnownStrings THEN ParsedKnown[string] ELSE ParseString(string)

isValidUrl(string) == ParseURL(string).ok

-----------------------------------------------------------------------------
(* detectPlatform *)

Null == [null |-> TRUE]

getPlatformDisplayName(key, url) == key

Platform(key, baseUrl) ==
    [key |-> key, name |-> getPlatformDisplayName(key, baseUrl), baseUrl |-> baseUrl]

\* Priority 1: try { hostname === new URL(baseUrl).hostname } catch { continue }
ExactHostTest(hostname, baseUrl) ==
    With(ParseURL(baseUrl), LAMBDA baseUrlObj :
      baseUrlObj.ok /\ hostname = baseUrlObj.hostname)

\* Mutant: the suffix test without the separating dot.
SubdomainTest_NoDot(hostname, baseUrl) ==
    With(ParseURL(baseUrl), LAMBDA baseUrlObj :
      baseUrlObj.ok /\ EndsWith(hostname, baseUrlObj.hostname))

\* Priority 3: try { hostname.endsWith("." + new URL(baseUrl).hostname) } catch { continue }
SubdomainTest(hostname, baseUrl) ==
    With(ParseURL(baseUrl), LAMBDA baseUrlObj :
      baseUrlObj.ok /\ EndsWith(hostname, <<".">> \o baseUrlObj.hostname))

LastTwoLabels(hostname) == Join(SliceLast2(Split(hostname, ".")), <<".">>)

\* Mutant: slice(-1) instead of slice(-2).
BaseDomainTest_LastLabel(hostname, baseUrl) ==
    LET baseUrlObj == ParseURL(baseUrl)
        baseLabels == Split(baseUrlObj.hostname, ".")
        urlLabels == Split(hostname, ".")
        baseDomain == baseLabels[Len(baseLabels)]
        urlDomain == urlLabels[Len(urlLabels)]
    IN  baseUrlObj.ok /\ baseDomain = urlDomain /\ Includes(baseDomain, <<".">>)

\* Priority 4: same last two labels, and a dot in them
BaseDomainTest(hostname, baseUrl) ==
    With(ParseURL(baseUrl), LAMBDA baseUrlObj :
      /\ baseUrlObj.ok
      /\ With(LastTwoLabels(baseUrlObj.hostname), LAMBDA baseDomain :
           With(LastTwoLabels(hostname), LAMBDA urlDomain :
             baseDomain = urlDomain /\ Includes(baseDomain, <<".">>))))

\* Mutant: the loop keeps the last hit instead of returning at the first.
Tier1_Last(data, hostname) ==
    LET hits == {i \in 1..Len(data) : ExactHostTest(hostname, data[i].baseUrl)}
    IN  IF hits = {} THEN 0 ELSE CHOOSE i \in hits : \A j \in hits : j <= i

Tier1(data, hostname) ==
    FirstIndex({i \in 1..Len(data) : ExactHostTest(hostname, data[i].baseUrl)})

Tier3(data, hostname) ==
    FirstIndex({i \in 1..Len(data) : SubdomainTest(hostname, data[i].baseUrl)})

Tier4(data, hostname) ==
    FirstIndex({i \in 1..Len(data) : BaseDomainTest(hostname, data[i].baseUrl)})

\* Priority 2, hostname ghcr.io
GhcrRoute(pathname) ==
    IF Includes(pathname, P_v2_homebrew)
    THEN Platform(K_homebrew_bottles, B_ghcr)
    ELSE Platform(K_cr_ghcr, B_ghcr)

\* Priority 2, hostname github.com
GithubRoute(pathname) ==
    IF StartsWith(ToLowerCase(pathname), P_homebrew_slash)
    THEN Platform(K_homebrew, B_github_Homebrew)
    ELSE Platform(K_gh, B_github)

\* Mutant: the subdomain scan runs before the exact-hostname scan.
MatchHost_SubdomainFirst(hostname, pathname, data) ==
    LET t1 == Tier1(data, hostname)
        t3 == Tier3(data, hostname)
        t4 == Tier4(data, hostname)
    IN  IF t3 # 0 THEN Platform(data[t3].key, data[t3].baseUrl)
        ELSE IF t1 # 0 THEN Platform(data[t1].key, data[t1].baseUrl)
        ELSE IF hostname = H_ghcr THEN GhcrRoute(pathname)
        ELSE IF hostname = H_github THEN GithubRoute(pathname)
        ELSE IF t4 # 0 THEN Platform(data[t4].key, data[t4].baseUrl)
        ELSE Null

\* Mutant: the base-domain scan runs before the subdomain scan.
MatchHost_BaseDomainFirst(hostname, pathname, data) ==
    LET t1 == Tier1(data, hostname)
        t3 == Tier3(data, hostname)
        t4 == Tier4(data, hostname)
    IN  IF t1 # 0 THEN Platform(data[t1].key, data[t1].baseUrl)
        ELSE IF hostname = H_ghcr THEN GhcrRoute(pathname)
        ELSE IF hostname = H_github THEN GithubRoute(pathname)
        ELSE IF t4 # 0 THEN Platform(data[t4].key, data[t4].baseUrl)
        ELSE IF t3 # 0 THEN Platform(data[t3].key, data[t3].baseUrl)
        ELSE Null

\* Mutant: no try/catch inside the loops, so the first base URL that does not
\* parse throws out of the first loop into the outer catch, which returns null.
MatchHost_NoInnerTry(hostname, pathname, data) ==
    LET t1 == Tier1(data, hostname)
        t3 == Tier3(data, hostname)
        t4 == Tier4(data, hostname)
        bad == FirstIndex({i \in 1..Len(data) : ~ParseURL(data[i].baseUrl).ok})
    IN  IF t1 # 0 /\ (bad = 0 \/ t1 < bad)
             THEN Platform(data[t1].key, data[t1].baseUrl)
        ELSE IF bad # 0 THEN Null
        ELSE IF hostname = H_ghcr THEN GhcrRoute(pathname)
        ELSE IF hostname = H_github THEN GithubRoute(pathname)
        ELSE IF t3 # 0 THEN Platform(data[t3].key, data[t3].baseUrl)
        ELSE IF t4 # 0 THEN Platform(data[t4].key, data[t4].baseUrl)
        ELSE Null

\* The body of detectPlatform after new URL(url) succeeded: priorities 1 to 4
\* in the order of the source, each loop returning at its first hit.
MatchHost(hostname, pathname, data) ==
    With(Tier1(data, hostname), LAMBDA t1 :
      IF t1 # 0 THEN Platform(data[t1].key, data[t1].baseUrl)
      ELSE IF hostname = H_ghcr THEN GhcrRoute(pathname)
      ELSE IF hostname = H_github THEN GithubRoute(pathname)
      ELSE With(Tier3(data, hostname), LAMBDA t3 :
        IF t3 # 0 THEN Platform(data[t3].key, data[t3].baseUrl)
        ELSE With(Tier4(data, hostname), LAMBDA t4 :
          IF t4 # 0 THEN Platform(data[t4].key, data[t4].baseUrl)
          ELSE Null)))

\* detectPlatform(url) with platformsData = data; the outer catch returns null.
detectPlatformIn(url, data) ==
    With(ParseURL(url), LAMBDA urlObj :
      IF ~urlObj.ok THEN Null
      ELSE MatchHost(urlObj.hostname, urlObj.pathname, data))

\* Mutant: once a platform was detected, the scan starts at the second entry.
detectPlatform_Remembering(url) ==
    detectPlatformIn(url,
        IF "key" \in DOMAIN detectedPlatform
        THEN SubSeq(platformsData, 2, Len(platformsData))
        ELSE platformsData)

detectPlatform(url) == detectPlatformIn(url, platformsData)

-----------------------------------------------------------------------------
(* adjustPathForPlatform *)

NoBlobMatch == [matched |-> FALSE, owner |-> <<>>, repo |-> <<>>, branchAndFile |-> <<>>]

\* path.match(/^\/([^\/]+)\/([^\/]+)\/blob\/(.+)$/), given the places s2 and s3
\* of the second and third '/'
BlobMatchAt(path, s2, s3) ==
    LET owner == SubSeq(path, 2, s2 - 1)
        repo == SubSeq(path, s2 + 1, s3 - 1)
        restAt == s3 + Len(P_slash_blob_slash)
    IN  IF /\ Len(path) >= 1 /\ path[1] = "/"
           /\ Len(owner) >= 1
           /\ Len(repo) >= 1
           /\ restAt <= Len(path)
           /\ SubSeq(path, s3, restAt - 1) = P_slash_blob_slash
        THEN [matched |-> TRUE, owner |-> owner, repo |-> repo,
              branchAndFile |-> SubSeq(path, restAt, Len(path))]
        ELSE NoBlobMatch

BlobMatch(path) ==
    With(IndexOfAny(path, {"/"}, 2), LAMBDA s2 :
      BlobMatchAt(path, s2, IndexOfAny(path, {"/"}, s2 + 1)))

RawPrefix(blobMatch) ==
    <<"/">> \o blobMatch.owner \o <<"/">> \o blobMatch.repo \o P_raw_refs_heads

\* Mutant: the branch-only case forgets the trailing '/'.
GhBlobToRaw_NoTrailingSlash(path) ==
    LET blobMatch == BlobMatch(path)
        parts == Split(blobMatch.branchAndFile, "/")
    IN  IF ~blobMatch.matched THEN path
        ELSE IF Len(parts) >= 2
        THEN RawPrefix(blobMatch) \o parts[1] \o <<"/">>
                \o Join(SliceFrom1(parts), <<"/">>)
        ELSE RawPrefix(blobMatch) \o parts[1]

\* platformKey === "gh" (lines 651-675)
GhBlobToRaw(path) ==
    With(BlobMatch(path), LAMBDA blobMatch :
      IF ~blobMatch.matched THEN path
      ELSE With(Split(blobMatch.branchAndFile, "/"), LAMBDA parts :
        IF Len(parts) >= 2
        THEN RawPrefix(blobMatch) \o parts[1] \o <<"/">>
                \o Join(SliceFrom1(parts), <<"/">>)
        ELSE RawPrefix(blobMatch) \o parts[1] \o <<"/">>))

\* path.replace(/^<prefix>/i, "")
RemoveLeading(path, prefix) ==
    IF Len(prefix) <= Len(path) /\ ToLowerCase(SubSeq(path, 1, Len(prefix))) = prefix
    THEN SubSeq(path, Len(prefix) + 1, Len(path))
    ELSE path

\* if (!path || path === "/") path = ""
EmptyIfRoot(path) == IF path = <<>> \/ path = <<"/">> THEN <<>> ELSE path

StripLeading(path, prefix) == EmptyIfRoot(RemoveLeading(path, prefix))

\* if (!path.startsWith("/") && path !== "") path = "/" + path
EnsureLeadingSlash(path) ==
    IF ~StartsWith(path, <<"/">>) /\ path # <<>> THEN <<"/">> \o path ELSE path

\* The third parameter of the source, urlObj, is never read. A key equals at
\* most one of the three identifiers, so at most one branch changes the path.
adjustPathForPlatform(path, platformKey) ==
    EnsureLeadingSlash(
        IF platformKey = K_gh THEN GhBlobToRaw(path)
        ELSE IF platformKey = K_homebrew THEN StripLeading(path, P_homebrew)
        ELSE IF platformKey = K_homebrew_api THEN StripLeading(path, P_api)
        ELSE path)

-----------------------------------------------------------------------------
(* The gateway domain and the composed URL *)

\* domain.replace(/\/$/, "")
StripOneTrailingSlash(s) ==
    IF Len(s) >= 1 /\ s[Len(s)] = "/" THEN SubSeq(s, 1, Len(s) - 1) ELSE s

\* Mutant: the field text is used without the isValidUrl test.
getXgetDomain_NoValidation(fieldValue) ==
    IF Trim(fieldValue) # <<>> THEN StripOneTrailingSlash(Trim(fieldValue))
    ELSE DefaultXgetDomain

\* getXgetDomain(), on the text of the gateway-domain field
getXgetDomain(fieldValue) ==
    With(Trim(fieldValue), LAMBDA domain :
      IF domain # <<>> /\ isValidUrl(domain)
      THEN StripOneTrailingSlash(domain)
      ELSE DefaultXgetDomain)

\* The path performUrlConversion hands to adjustPathForPlatform
BasePath(url) ==
    With(ParseURL(url), LAMBDA urlObj :
      IF urlObj.search # <<>> THEN urlObj.pathname \o urlObj.search
      ELSE urlObj.pathname)

\* const xgetUrl = `${xgetDomain}/${platformPrefix}${path}`
XgetUrl(xgetDomain, platformPrefix, path) ==
    xgetDomain \o <<"/">> \o platformPrefix \o path

-----------------------------------------------------------------------------
(* The classes and texts the handlers set *)

showResult(d) == [d EXCEPT !.resultHidden = FALSE, !.hasContent = TRUE]

\* Mutant: has-content is removed whether or not the error is on display.
hideResult_Always(d) == [d EXCEPT !.resultHidden = TRUE, !.hasContent = FALSE]

hideResult(d) ==
    [d EXCEPT !.resultHidden = TRUE,
              !.hasContent = IF d.errorHidden THEN FALSE ELSE @]

showError(d, message) ==
    [d EXCEPT !.errorText = message, !.errorHidden = FALSE, !.hasContent = TRUE]

hideError(d) ==
    [d EXCEPT !.errorHidden = TRUE,
              !.hasContent = IF d.resultHidden THEN FALSE ELSE @]

\* platformName.textContent and platformDot.className; the texts are named by
\* what they say: "auto" (line 756), "detected" with the key (line 766),
\* "invalid-format" (line 445), "unsupported" (line 459).
StatusReset == [text |-> "auto", key |-> <<>>, dot |-> "platform-dot"]

showPlatformDetected(key, name) ==
    [text |-> "detected", key |-> key, dot |-> "platform-dot detected"]

showPlatformError(message) ==
    [text |-> message, key |-> <<>>, dot |-> "platform-dot error"]

NotCalled == [notCalled |-> TRUE]

-----------------------------------------------------------------------------
(* handleUrlInput and performUrlConversion, on the texts of the two fields *)

\* The try block of performUrlConversion after new URL(url) returned (lines
\* 606-634), path being the adjusted path and d the classes when it starts
ShowConversion(detected, basePath, path, domainField, d) ==
    /\ adjustedPath' = [key |-> detected.key, path |-> basePath, out |-> path]
    /\ convertedUrlInput' = XgetUrl(getXgetDomain(domainField), detected.key, path)
    /\ dom' = hideError(showResult(d))

\* performUrlConversion(url, detectedPlatform) run while the gateway-domain
\* field holds domainField and the classes and the error text are d. When
\* new URL(url) throws (line 605) the catch of lines 635-638 reports it,
\* "conversion-failed" standing for its text, and nothing else is touched.
performUrlConversion(url, detected, domainField, d) ==
    IF ~ParseURL(url).ok
    THEN /\ dom' = showError(d, "conversion-failed")
         /\ UNCHANGED <<convertedUrlInput, adjustedPath>>
    ELSE With(BasePath(url), LAMBDA basePath :
           ShowConversion(detected, basePath,
                          adjustPathForPlatform(basePath, detected.key),
                          domainField, d))

\* The branches of handleUrlInput after detectPlatform returned (lines 451-460)
HandleDetected(url, detected, domainField) ==
    /\ detectedPlatform' = detected
    /\ IF detected # Null
       THEN /\ platformStatus' = showPlatformDetected(detected.key, detected.name)
            /\ performUrlConversion(url, detected, domainField, hideError(dom))
       ELSE /\ platformStatus' = showPlatformError("unsupported")
            /\ dom' = hideResult(dom)
            /\ UNCHANGED <<convertedUrlInput, adjustedPath>>

\* handleUrlInput() after const url = originalUrlInput.value.trim()
HandleTrimmed(url, domainField) ==
    IF url = <<>>
    THEN /\ platformStatus' = StatusReset
         /\ dom' = hideResult(hideError(dom))
         /\ UNCHANGED <<convertedUrlInput, detectedPlatform, adjustedPath>>
    ELSE IF ~isValidUrl(url)
    THEN /\ platformStatus' = showPlatformError("invalid-format")
         /\ dom' = hideResult(dom)
         /\ UNCHANGED <<convertedUrlInput, detectedPlatform, adjustedPath>>
    ELSE HandleDetected(url, detectPlatform(url), domainField)

\* handleUrlInput() run while the original-URL field holds urlField and the
\* gateway-domain field holds domainField
handleUrlInput(urlField, domainField) == HandleTrimmed(Trim(urlField), domainField)

-----------------------------------------------------------------------------
(* State shared by the specifications *)


\* The sponsor modal as served (hidden), no timeout set
ModalInitial == [hidden |-> TRUE, scheduled |-> FALSE]

S_true == <<"t", "r", "u", "e">>

\* if (value): neither null nor the empty string
Truthy(value) == value # Null /\ value # <<>>

DomInitial ==
    [resultHidden |-> TRUE, errorHidden |-> TRUE, hasContent |-> FALSE,
     errorText |-> "none"]

\* The page as served, after the module-level statements (lines 128-136) ran.
PageLoaded ==
    /\ localStorage = [xgetDomain |-> DefaultXgetDomain,
                       dontShowSponsorModal |-> S_true]
    /\ sponsorModal = ModalInitial
    /\ domainsGrid = "pending"
    /\ xgetDomainInput = [value |-> <<>>, error |-> FALSE]
    /\ convertedUrlInput = <<>>
    /\ dom = DomInitial
    /\ platformStatus = StatusReset
    /\ pasteTimers = 0
    /\ copyPending = 0

-----------------------------------------------------------------------------
(* Specification of detectPlatform as a function of the registry and the
   target: Init draws both, the action makes the call. *)

InitMatch ==
    /\ pc = "match"
    /\ platformsData \in Registries
    /\ originalUrlInput \in Targets
    /\ detectedPlatform = NotCalled
    /\ adjustedPath = NotCalled
    /\ PageLoaded

DetectCall ==
    /\ pc = "match"
    /\ pc' = "matched"
    /\ detectedPlatform' = detectPlatform(originalUrlInput)
    /\ UNCHANGED <<platformsData, originalUrlInput, adjustedPath, uiVars>>

NextMatch == DetectCall

SpecMatch == InitMatch /\ [][NextMatch]_vars

-----------------------------------------------------------------------------
(* Properties of detectPlatform, stated over the call SpecMatch makes *)

Matched == pc = "matched"

\* new URL of every target and of every base URL of the catalog
ParsedTarget == [u \in Targets |-> ParseURL(u)]
ParsedBase == [b \in {e.baseUrl : e \in Catalog} |-> ParseURL(b)]

Target == ParsedTarget[originalUrlInput]
TargetHost == [u \in ValidTargets |-> ParsedTarget[u].hostname]

EntryParses(i) == ParsedBase[platformsData[i].baseUrl].ok
EntryHost(i) == ParsedBase[platformsData[i].baseUrl].hostname
EntryPlatform(i) ==
    [key |-> platformsData[i].key, name |-> platformsData[i].key,
     baseUrl |-> platformsData[i].baseUrl]

\* h is some prefix followed by a dot followed by g
IsDotSuffix(h, g) ==
    \E k \in 1..Len(h) : h[k] = "." /\ SubSeq(h, k + 1, Len(h)) = g

\* both names have two labels or more, and the same last two
SameLastTwoLabels(h, g) ==
    LET a == Split(h, ".")
        b == Split(g, ".")
    IN  /\ Len(a) >= 2 /\ Len(b) >= 2
        /\ a[Len(a)] = b[Len(b)]
        /\ a[Len(a) - 1] = b[Len(b) - 1]

ExactEntries == {i \in 1..Len(platformsData) :
                    EntryParses(i) /\ EntryHost(i) = Target.hostname}
SubdomainEntries == {i \in 1..Len(platformsData) :
                        EntryParses(i) /\ IsDotSuffix(Target.hostname, EntryHost(i))}
BaseDomainEntries == {i \in 1..Len(platformsData) :
                         EntryParses(i) /\ SameLastTwoLabels(Target.hostname, EntryHost(i))}

IsFirstOf(i, S) == i \in S /\ \A j \in S : i <= j

SpecialHost == Target.hostname \in {H_ghcr, H_github}

\* C1: when one entry's hostname equals the target hostname and another entry
\* matches it only as a dot-suffix or only by its last two labels, the result
\* is an exact-hostname entry, wherever the entries stand in the registry.
C1_ExactOutranks ==
    (Matched /\ Target.ok /\ ExactEntries # {}
       /\ (SubdomainEntries \cup BaseDomainEntries) \ ExactEntries # {})
    => \E i \in ExactEntries : detectedPlatform = EntryPlatform(i)

\* C1 witness: the exact entry stands after a subdomain-only entry and was returned.
C1_Witness ==
    /\ Matched /\ Target.ok
    /\ \E i \in ExactEntries : \E j \in SubdomainEntries \ ExactEntries :
          j < i /\ detectedPlatform = EntryPlatform(i)

\* C2 (as claimed): for hostname github.com the result is homebrew with base
\* https://github.com/Homebrew when the pathname starts with /homebrew/
\* case-insensitively, and gh with base https://github.com otherwise, whatever
\* the registry holds.
C2_GithubRouting ==
    (Matched /\ Target.ok /\ Target.hostname = H_github)
    => detectedPlatform =
          IF StartsWith(ToLowerCase(Target.pathname), P_homebrew_slash)
          THEN [key |-> K_homebrew, name |-> K_homebrew, baseUrl |-> B_github_Homebrew]
          ELSE [key |-> K_gh, name |-> K_gh, baseUrl |-> B_github]

\* C3 (as claimed): for hostname ghcr.io the result is homebrew-bottles when the
\* pathname contains /v2/homebrew/ and cr-ghcr otherwise, both with base
\* https://ghcr.io, whatever the registry holds.
C3_GhcrRouting ==
    (Matched /\ Target.ok /\ Target.hostname = H_ghcr)
    => detectedPlatform =
          IF Includes(Target.pathname, P_v2_homebrew)
          THEN [key |-> K_homebrew_bottles, name |-> K_homebrew_bottles, baseUrl |-> B_ghcr]
          ELSE [key |-> K_cr_ghcr, name |-> K_cr_ghcr, baseUrl |-> B_ghcr]

\* C4: when several entries have the target hostname, the first of them in
\* registry order is returned, and every target with that hostname, whatever
\* its pathname, gets the same result.
C4_FirstExactWins ==
    (Matched /\ Target.ok /\ ExactEntries # {})
    => /\ \E i \in ExactEntries :
             IsFirstOf(i, ExactEntries) /\ detectedPlatform = EntryPlatform(i)
       /\ \A u \in ValidTargets :
             TargetHost[u] = Target.hostname
             => detectPlatform(u) = detectedPlatform

\* C4 witness: two entries share the target hostname github.com, the target's
\* path is under /Homebrew/, and the first entry, gh, was returned.
C4_Witness ==
    /\ Matched /\ Target.ok
    /\ Cardinality(ExactEntries) >= 2
    /\ originalUrlInput = U_gh_Homebrew_brew
    /\ detectedPlatform.key = K_gh

\* C5: with no exact entry and a hostname other than ghcr.io and github.com,
\* the first entry of which the target is a dot-suffixed subdomain is returned,
\* also when an entry matching by base domain only stands earlier.
C5_SubdomainTier ==
    (Matched /\ Target.ok /\ ExactEntries = {} /\ ~SpecialHost
       /\ SubdomainEntries # {})
    => \E i \in SubdomainEntries :
          IsFirstOf(i, SubdomainEntries) /\ detectedPlatform = EntryPlatform(i)

\* C5 witness: a base-domain-only entry stands before the subdomain entry returned.
C5_Witness ==
    /\ Matched /\ Target.ok /\ ExactEntries = {} /\ ~SpecialHost
    /\ \E i \in SubdomainEntries : \E j \in BaseDomainEntries \ SubdomainEntries :
          j < i /\ detectedPlatform = EntryPlatform(i)

\* C6: when tiers 1 to 3 find nothing, the first entry with the same last two
\* labels as the target is returned, only if both names have two labels; with
\* no such entry (in particular for single-label names) nothing is returned.
C6_BaseDomainTier ==
    (Matched /\ Target.ok /\ ExactEntries = {} /\ ~SpecialHost
       /\ SubdomainEntries = {})
    => IF BaseDomainEntries # {}
       THEN \E i \in BaseDomainEntries :
               IsFirstOf(i, BaseDomainEntries) /\ detectedPlatform = EntryPlatform(i)
       ELSE detectedPlatform = Null

\* C6 witness: two entries share the target's last two labels, neither is an
\* exact or subdomain match, and the first was returned.
C6_Witness ==
    /\ Matched /\ Target.ok /\ ExactEntries = {} /\ ~SpecialHost
    /\ SubdomainEntries = {}
    /\ Cardinality(BaseDomainEntries) >= 2
    /\ \E i \in BaseDomainEntries : detectedPlatform = EntryPlatform(i)

\* C6 witness of the single-label case: target and entry are both one label,
\* they differ, and nothing was returned.
C6_SingleLabelWitness ==
    /\ Matched /\ Target.ok /\ detectedPlatform = Null
    /\ Len(Split(Target.hostname, ".")) = 1
    /\ \E i \in 1..Len(platformsData) :
          EntryParses(i) /\ Len(Split(EntryHost(i), ".")) = 1

\* C7 (as claimed): null is returned exactly when no parseable entry matches
\* the hostname exactly, as a dot-suffix, or by a dotted last-two-label domain.
C7_NullIffNoEntryMatches ==
    (Matched /\ Target.ok)
    => (detectedPlatform = Null
          <=> ExactEntries \cup SubdomainEntries \cup BaseDomainEntries = {})

\* C7 (amended): null is returned exactly when the hostname is neither ghcr.io
\* nor github.com and no parseable entry matches it exactly, as a dot-suffix,
\* or by a dotted last-two-label domain.
C7_NullIffNoEntryAndNotSpecial ==
    (Matched /\ Target.ok)
    => (detectedPlatform = Null
          <=> (~SpecialHost
               /\ ExactEntries \cup SubdomainEntries \cup BaseDomainEntries = {}))

\* C7 witness: a registry with parseable entries, none matching, and null returned.
C7_Witness ==
    /\ Matched /\ Target.ok /\ ~SpecialHost
    /\ detectedPlatform = Null
    /\ \E i \in 1..Len(platformsData) : EntryParses(i)
    /\ Len(platformsData) >= 2

WithoutMalformed(data) == SelectSeq(data, LAMBDA e : ParsedBase[e.baseUrl].ok)

\* C9: the result on a registry equals the result on the same registry with
\* the entries whose base URL does not parse removed.
C9_MalformedSkipped ==
    Matched
    => detectedPlatform = detectPlatformIn(originalUrlInput, WithoutMalformed(platformsData))

\* C9 witness: a malformed entry stands first, and a later entry was returned.
C9_Witness ==
    /\ Matched /\ Target.ok
    /\ Len(platformsData) >= 2
    /\ ~EntryParses(1)
    /\ \E i \in 2..Len(platformsData) : detectedPlatform = EntryPlatform(i)

\* C8 (as claimed): a call of detectPlatform on a target string that does not
\* parse as an absolute URL ends with an outcome of its own, which is not the
\* no-match value.
C8_InvalidUrlDistinctFromNoMatch ==
    (Matched /\ ~Target.ok) => detectedPlatform # Null

-----------------------------------------------------------------------------
(* Specification of adjustPathForPlatform as a function of the identifier and
   the base path (pathname plus query string of a parsed URL): Init draws
   both, the action makes the call. The pathname of http://host is "/"; that
   of git://host is empty, so a base path can be empty or a bare query string;
   that of x:y is y. *)

R_root == <<"/">>
R_repo == <<"/", "o", "w", "n", "e", "r", "/", "r", "e", "p", "o">>
R_blob_file == <<"/", "o", "w", "n", "e", "r", "/", "r", "e", "p", "o", "/", "b", "l", "o", "b", "/", "m", "a", "i", "n", "/", "p", "a", "t", "h", "/", "t", "o", "/", "f", "i", "l", "e", ".", "t", "x", "t">>
R_blob_branch == <<"/", "o", "w", "n", "e", "r", "/", "r", "e", "p", "o", "/", "b", "l", "o", "b", "/", "m", "a", "i", "n">>
R_blob_branch_slash == <<"/", "o", "w", "n", "e", "r", "/", "r", "e", "p", "o", "/", "b", "l", "o", "b", "/", "m", "a", "i", "n", "/">>
R_blob_empty == <<"/", "o", "w", "n", "e", "r", "/", "r", "e", "p", "o", "/", "b", "l", "o", "b", "/">>
R_blob_bare == <<"/", "o", "w", "n", "e", "r", "/", "r", "e", "p", "o", "/", "b", "l", "o", "b">>
R_blob_double == <<"/", "o", "w", "n", "e", "r", "/", "r", "e", "p", "o", "/", "b", "l", "o", "b", "/", "/", "f", "i", "l", "e", ".", "t", "x", "t">>
R_blob_query == <<"/", "o", "w", "n", "e", "r", "/", "r", "e", "p", "o", "/", "b", "l", "o", "b", "/", "m", "a", "i", "n", "?", "r", "a", "w", "=", "1">>
R_blob_file_query == <<"/", "o", "w", "n", "e", "r", "/", "r", "e", "p", "o", "/", "b", "l", "o", "b", "/", "d", "e", "v", "/", "a", ".", "t", "x", "t", "?", "r", "a", "w", "=", "1">>
R_blob_deep == <<"/", "o", "w", "n", "e", "r", "/", "r", "e", "p", "o", "/", "s", "u", "b", "/", "b", "l", "o", "b", "/", "m", "a", "i", "n", "/", "f", "i", "l", "e", ".", "t", "x", "t">>
R_blob_short == <<"/", "o", "w", "n", "e", "r", "/", "b", "l", "o", "b", "/", "m", "a", "i", "n", "/", "f", "i", "l", "e", ".", "t", "x", "t">>
R_blob_noowner == <<"/", "/", "r", "e", "p", "o", "/", "b", "l", "o", "b", "/", "m", "a", "i", "n", "/", "f", "i", "l", "e", ".", "t", "x", "t">>
R_blob_upper == <<"/", "o", "w", "n", "e", "r", "/", "r", "e", "p", "o", "/", "B", "l", "o", "b", "/", "m", "a", "i", "n", "/", "f", "i", "l", "e", ".", "t", "x", "t">>
R_tree == <<"/", "o", "w", "n", "e", "r", "/", "r", "e", "p", "o", "/", "t", "r", "e", "e", "/", "m", "a", "i", "n", "/", "s", "r", "c">>
R_Homebrew_formula == <<"/", "H", "o", "m", "e", "b", "r", "e", "w", "/", "c", "o", "r", "e", "/", "f", "o", "r", "m", "u", "l", "a", "/", "w", "g", "e", "t", ".", "r", "b">>
R_homebrew == <<"/", "h", "o", "m", "e", "b", "r", "e", "w">>
R_HOMEBREW_slash == <<"/", "H", "O", "M", "E", "B", "R", "E", "W", "/">>
R_homebrewx == <<"/", "h", "o", "m", "e", "b", "r", "e", "w", "x", "/", "c", "o", "r", "e">>
R_x_homebrew == <<"/", "x", "/", "h", "o", "m", "e", "b", "r", "e", "w", "/", "c", "o", "r", "e">>
R_homebrew_twice == <<"/", "h", "o", "m", "e", "b", "r", "e", "w", "/", "h", "o", "m", "e", "b", "r", "e", "w", "/", "c", "o", "r", "e">>
R_api_formula == <<"/", "a", "p", "i", "/", "f", "o", "r", "m", "u", "l", "a", "/", "w", "g", "e", "t", ".", "j", "s", "o", "n">>
R_API == <<"/", "A", "P", "I">>
R_api_slash == <<"/", "a", "p", "i", "/">>
R_apiary == <<"/", "a", "p", "i", "a", "r", "y", "/", "l", "i", "s", "t">>
R_x_api == <<"/", "x", "/", "a", "p", "i">>
R_api_query == <<"/", "a", "p", "i", "?", "q", "=", "1">>
R_empty == <<>>
R_query == <<"?", "x", "=", "1">>
R_opaque == <<"y">>

RewritePaths ==
    { R_root, R_repo, R_blob_file, R_blob_branch, R_blob_branch_slash, R_blob_empty,
      R_blob_bare, R_blob_double, R_blob_query, R_blob_file_query, R_blob_deep,
      R_blob_short, R_blob_noowner, R_blob_upper, R_tree,
      R_Homebrew_formula, R_homebrew, R_HOMEBREW_slash, R_homebrewx, R_x_homebrew,
      R_homebrew_twice,
      R_api_formula, R_API, R_api_slash, R_apiary, R_x_api, R_api_query,
      R_empty, R_query, R_opaque }

RewriteKeys == { K_gh, K_homebrew, K_homebrew_api, K_homebrew_bottles, K_npm }

InitRewrite ==
    /\ pc = "rewrite"
    /\ platformsData = <<>>
    /\ originalUrlInput = <<>>
    /\ detectedPlatform = NotCalled
    /\ adjustedPath \in [key : RewriteKeys, path : RewritePaths, out : {NotCalled}]
    /\ PageLoaded

AdjustCall ==
    /\ pc = "rewrite"
    /\ pc' = "rewritten"
    /\ adjustedPath' =
          [adjustedPath EXCEPT
             !.out = adjustPathForPlatform(adjustedPath.path, adjustedPath.key)]
    /\ UNCHANGED <<platformsData, originalUrlInput, detectedPlatform, uiVars>>

NextRewrite == AdjustCall

SpecRewrite == InitRewrite /\ [][NextRewrite]_vars

-----------------------------------------------------------------------------
(* Properties of adjustPathForPlatform, stated over the call SpecRewrite makes *)

Rewritten == pc = "rewritten"

Segments(path) == Split(path, "/")

\* path is /{owner}/{repo}/blob/{rest}: owner and repo are non-empty segments,
\* the next segment is "blob", and something follows its '/'
IsBlobShape(path) ==
    LET segs == Segments(path)
    IN  /\ Len(segs) >= 5
        /\ segs[1] = <<>> /\ segs[2] # <<>> /\ segs[3] # <<>>
        /\ segs[4] = <<"b", "l", "o", "b">>
        /\ Join(SubSeq(segs, 5, Len(segs)), <<"/">>) # <<>>

\* /{owner}/{repo}/raw/refs/heads/{branch}/{filePath}
RawPathOf(path) ==
    LET segs == Segments(path)
    IN  Join(<<segs[1], segs[2], segs[3], <<"r", "a", "w">>, <<"r", "e", "f", "s">>,
               <<"h", "e", "a", "d", "s">>, segs[5],
               Join(SubSeq(segs, 6, Len(segs)), <<"/">>)>>, <<"/">>)

\* C10 (as claimed): for gh, a path /{owner}/{repo}/blob/{rest} becomes
\* /{owner}/{repo}/raw/refs/heads/{branch}/{filePath} with branch the first
\* segment of rest and filePath the other segments joined by '/' (an empty
\* filePath keeps the trailing '/'); every other gh path is returned unchanged.
C10_GhOthersUnchanged ==
    (Rewritten /\ adjustedPath.key = K_gh)
    => adjustedPath.out =
          IF IsBlobShape(adjustedPath.path) THEN RawPathOf(adjustedPath.path)
          ELSE adjustedPath.path

\* C10 (amended): for gh, a path /{owner}/{repo}/blob/{rest} becomes
\* /{owner}/{repo}/raw/refs/heads/{branch}/{filePath} as above; every other gh
\* path that is empty or starts with '/' is returned unchanged, and one that
\* starts with another character is returned with a '/' in front.
C10_GhBlobRewrite ==
    (Rewritten /\ adjustedPath.key = K_gh)
    => adjustedPath.out =
          IF IsBlobShape(adjustedPath.path) THEN RawPathOf(adjustedPath.path)
          ELSE IF adjustedPath.path = <<>> \/ adjustedPath.path[1] = "/"
          THEN adjustedPath.path
          ELSE <<"/">> \o adjustedPath.path

\* C10 witness: /owner/repo/blob/main was rewritten to /owner/repo/raw/refs/heads/main/
C10_Witness ==
    /\ Rewritten /\ adjustedPath.key = K_gh
    /\ adjustedPath.path = R_blob_branch
    /\ adjustedPath.out = <<"/">> \o <<"o", "w", "n", "e", "r">> \o <<"/">>
                            \o <<"r", "e", "p", "o">> \o P_raw_refs_heads
                            \o <<"m", "a", "i", "n">> \o <<"/">>

\* The first segment of path is name, compared without regard to case: the
\* path is "/" + name, followed by nothing, by '/' or by the query string
FirstSegmentIs(path, name) ==
    /\ Len(path) >= Len(name) + 1
    /\ path[1] = "/"
    /\ ToLowerCase(SubSeq(path, 2, Len(name) + 1)) = name
    /\ Len(path) = Len(name) + 1 \/ path[Len(name) + 2] \in {"/", "?"}

AfterFirstSegment(path, name) == SubSeq(path, Len(name) + 2, Len(path))

\* An empty or "/" remainder is the empty string; a remainder that is a bare
\* query string gets the leading '/' of the final normalisation
CollapsedRemainder(rest) ==
    IF rest = <<>> \/ rest = <<"/">> THEN <<>>
    ELSE IF rest[1] # "/" THEN <<"/">> \o rest
    ELSE rest

N_homebrew == <<"h", "o", "m", "e", "b", "r", "e", "w">>
N_api == <<"a", "p", "i">>

\* C11 (as claimed): for homebrew, a leading /Homebrew segment (any case) is
\* removed once, a path whose first segment is not exactly homebrew is left as
\* it is, and what remains becomes the empty string when it is empty or "/".
C11_HomebrewSegmentStripped ==
    (Rewritten /\ adjustedPath.key = K_homebrew)
    => adjustedPath.out =
          CollapsedRemainder(
             IF FirstSegmentIs(adjustedPath.path, N_homebrew)
             THEN AfterFirstSegment(adjustedPath.path, N_homebrew)
             ELSE adjustedPath.path)

\* C12 (as claimed): for homebrew-api, a leading /api segment (any case) is
\* removed, a path whose first segment is not exactly api is left as it is,
\* and what remains becomes the empty string when it is empty or "/".
C12_ApiSegmentStripped ==
    (Rewritten /\ adjustedPath.key = K_homebrew_api)
    => adjustedPath.out =
          CollapsedRemainder(
             IF FirstSegmentIs(adjustedPath.path, N_api)
             THEN AfterFirstSegment(adjustedPath.path, N_api)
             ELSE adjustedPath.path)

\* C13 (as claimed): the path adjustPathForPlatform returns is empty or starts
\* with '/', and it is empty only for homebrew and homebrew-api.
C13_EmptyOnlyForHomebrew ==
    Rewritten
    => /\ adjustedPath.out = <<>> \/ adjustedPath.out[1] = "/"
       /\ adjustedPath.out = <<>>
            => adjustedPath.key \in {K_homebrew, K_homebrew_api}

\* Where the claim of C13 does hold: the path returned is empty or starts
\* with '/'; apart from homebrew and homebrew-api it is empty only when the
\* base path passed in is empty itself.
EmptyOrLeadingSlash ==
    Rewritten
    => /\ adjustedPath.out = <<>> \/ adjustedPath.out[1] = "/"
       /\ adjustedPath.out = <<>>
            => \/ adjustedPath.key \in {K_homebrew, K_homebrew_api}
               \/ adjustedPath.path = <<>>

\* C10: for gh the bare query string (of git://github.com?x=1) got a '/'.
C10_QueryWitness ==
    /\ Rewritten /\ adjustedPath.key = K_gh
    /\ adjustedPath.path = R_query
    /\ adjustedPath.out = <<"/", "?", "x", "=", "1">>

-----------------------------------------------------------------------------
(* The page: startup and the handlers setupEventListeners registers *)

MaxPasteTimers == 1

MaxCopies == 1

MaxCalls == 4

StoredDomains == { Null, <<>>, D_gateway_slash }

StoredFlags == { Null, <<>>, S_true }

\* The script starts with whatever an earlier session left in local storage
Init ==
    /\ pc = "module"
    /\ platformsData = <<>>
    /\ localStorage \in [xgetDomain : StoredDomains,
                         dontShowSponsorModal : StoredFlags]
    /\ xgetDomainInput = [value |-> <<>>, error |-> FALSE]
    /\ originalUrlInput = <<>>
    /\ convertedUrlInput = <<>>
    /\ dom = DomInitial
    /\ platformStatus = StatusReset
    /\ pasteTimers = 0
    /\ copyPending = 0
    /\ detectedPlatform = NotCalled
    /\ adjustedPath = NotCalled
    /\ sponsorModal = ModalInitial
    /\ domainsGrid = "pending"

\* Mutant: nothing is stored at module level.
setItemIfMissing_Never(stored, value) == stored

\* if (!localStorage.getItem(k)) localStorage.setItem(k, value)
setItemIfMissing(stored, value) == IF ~Truthy(stored) THEN value ELSE stored

\* The module-level statements of lines 128-136
ModuleInit ==
    /\ pc = "module"
    /\ pc' = "boot"
    /\ localStorage' =
          [dontShowSponsorModal |->
              setItemIfMissing(localStorage.dontShowSponsorModal, S_true),
           xgetDomain |-> setItemIfMissing(localStorage.xgetDomain, DefaultXgetDomain)]
    /\ UNCHANGED <<platformsData, xgetDomainInput, originalUrlInput,
                   convertedUrlInput, dom, platformStatus, pasteTimers, copyPending,
                   detectedPlatform, adjustedPath, sponsorModal, domainsGrid>>

\* The DOMContentLoaded handler up to its await: loadPlatforms starts the import
DOMContentLoaded ==
    /\ pc = "boot"
    /\ pc' = "loading"
    /\ UNCHANGED <<platformsData, localStorage, xgetDomainInput, originalUrlInput,
                   convertedUrlInput, dom, platformStatus, pasteTimers, copyPending,
                   detectedPlatform, adjustedPath, sponsorModal, domainsGrid>>

\* loadSavedDomain
loadSavedDomain(field, savedDomain) ==
    IF Truthy(savedDomain) THEN [field EXCEPT !.value = savedDomain] ELSE field

\* The import settled: the rest of loadPlatforms, then loadSavedDomain,
\* setupEventListeners, the start of setupDomainsSection, the read of
\* dontShowSponsorModal and setupModalEventListeners
LoadPlatformsSettled ==
    /\ pc = "loading"
    /\ pc' = "ready"
    /\ \E loaded \in LoadOutcomes :
          /\ platformsData' = loaded
          /\ dom' = IF Len(loaded) = 0 THEN showError(dom, "load-failed")
                    ELSE hideError(dom)
    /\ xgetDomainInput' = loadSavedDomain(xgetDomainInput, localStorage.xgetDomain)
    /\ sponsorModal' =
          IF ~Truthy(localStorage.dontShowSponsorModal)
          THEN [sponsorModal EXCEPT !.scheduled = TRUE]
          ELSE sponsorModal
    /\ UNCHANGED <<localStorage, originalUrlInput, convertedUrlInput, platformStatus,
                   pasteTimers, copyPending, detectedPlatform, adjustedPath, domainsGrid>>

\* Mutant: the listeners are registered before the await.
ListenersRegistered_BeforeLoad == pc \in {"loading", "ready"}

\* setupEventListeners and setupModalEventListeners ran (lines 194, 205)
ListenersRegistered == pc = "ready"

\* loadDomainsData settled and setupDomainClickHandlers ran
DomainsSectionSettled ==
    /\ pc = "ready"
    /\ domainsGrid = "pending"
    /\ domainsGrid' = "loaded"
    /\ UNCHANGED <<pc, platformsData, localStorage, xgetDomainInput, originalUrlInput,
                   convertedUrlInput, dom, platformStatus, pasteTimers, copyPending,
                   detectedPlatform, adjustedPath, sponsorModal>>

\* "input" on the original-URL field: the field holds v, handleUrlInput runs
UrlInput ==
    /\ ListenersRegistered
    /\ \E v \in UrlFieldValues :
          /\ originalUrlInput' = v
          /\ handleUrlInput(v, xgetDomainInput.value)
    /\ UNCHANGED <<pc, platformsData, localStorage, xgetDomainInput, pasteTimers, copyPending,
                   sponsorModal, domainsGrid>>

\* "paste" on the original-URL field (lines 223-225): the listener sets a
\* timeout and does nothing else; the pasted text arrives with its own "input"
Paste ==
    /\ ListenersRegistered
    /\ pasteTimers < MaxPasteTimers
    /\ pasteTimers' = pasteTimers + 1
    /\ UNCHANGED <<pc, platformsData, localStorage, xgetDomainInput, originalUrlInput,
                   convertedUrlInput, dom, platformStatus, copyPending,
                   detectedPlatform, adjustedPath, sponsorModal, domainsGrid>>

\* The timeout of a paste fires: handleUrlInput runs on the fields as they are
PasteTimeout ==
    /\ pasteTimers > 0
    /\ pasteTimers' = pasteTimers - 1
    /\ handleUrlInput(originalUrlInput, xgetDomainInput.value)
    /\ UNCHANGED <<pc, platformsData, localStorage, xgetDomainInput, originalUrlInput,
                   copyPending, sponsorModal, domainsGrid>>

\* A click on a catalog item: createSampleUrl, the field is filled, handleUrlInput runs
CatalogClick ==
    /\ domainsGrid = "loaded"
    /\ \E domainUrl \in CatalogDomains :
          /\ originalUrlInput' = sampleUrl[domainUrl]
          /\ handleUrlInput(originalUrlInput', xgetDomainInput.value)
    /\ UNCHANGED <<pc, platformsData, localStorage, xgetDomainInput, pasteTimers, copyPending,
                   sponsorModal, domainsGrid>>

\* handleDomainInput() while the gateway-domain field holds the text v
handleDomainInput(v, domain) ==
    IF domain # <<>> /\ ~isValidUrl(domain)
    THEN /\ xgetDomainInput' = [value |-> v, error |-> TRUE]
         /\ UNCHANGED <<convertedUrlInput, dom, platformStatus,
                        detectedPlatform, adjustedPath>>
    ELSE /\ xgetDomainInput' = [value |-> v, error |-> FALSE]
         /\ IF Trim(originalUrlInput) # <<>> /\ ~dom.resultHidden
            THEN handleUrlInput(originalUrlInput, v)
            ELSE UNCHANGED <<convertedUrlInput, dom, platformStatus,
                             detectedPlatform, adjustedPath>>

\* "input" on the gateway-domain field: the field holds v, handleDomainInput runs
DomainInput ==
    /\ ListenersRegistered
    /\ \E v \in DomainFieldValues : handleDomainInput(v, Trim(v))
    /\ UNCHANGED <<pc, platformsData, localStorage, originalUrlInput, pasteTimers, copyPending,
                   sponsorModal, domainsGrid>>

\* "blur" on the gateway-domain field: saveDomain
DomainBlur ==
    /\ ListenersRegistered
    /\ localStorage' =
          IF Trim(xgetDomainInput.value) # <<>>
          THEN [localStorage EXCEPT !.xgetDomain = Trim(xgetDomainInput.value)]
          ELSE localStorage
    /\ UNCHANGED <<pc, platformsData, xgetDomainInput, originalUrlInput,
                   convertedUrlInput, dom, platformStatus, pasteTimers, copyPending,
                   detectedPlatform, adjustedPath, sponsorModal, domainsGrid>>

\* "change" on the don't-show-again checkbox (lines 873-880)
DontShowAgainChange ==
    /\ ListenersRegistered
    /\ \E checked \in BOOLEAN :
          localStorage' =
             [localStorage EXCEPT
                !.dontShowSponsorModal = IF checked THEN S_true ELSE Null]
    /\ UNCHANGED <<pc, platformsData, xgetDomainInput, originalUrlInput,
                   convertedUrlInput, dom, platformStatus, pasteTimers, copyPending,
                   detectedPlatform, adjustedPath, sponsorModal, domainsGrid>>

\* isLoading (line 151): false until showLoading (line 304, first statement of
\* loadPlatforms, which the DOMContentLoaded handler calls before any await)
\* sets it; no statement sets it back
isLoading == pc \in {"loading", "ready"}

\* What a click on the copy button meets at line 725: navigator.clipboard with
\* a writeText that returns a promise ("awaits"), or no navigator.clipboard, so
\* that the expression throws and the catch of lines 727-735 runs inside the
\* click, where execCommand goes through ("copied") or throws ("failed")
CopyOutcomes == { "awaits", "copied", "failed" }

\* "click" on the copy button (line 220): copyToClipboard up to its await, or
\* to its end when nothing is awaited. With an empty converted-URL field it
\* returns at once (lines 720-722). showCopySuccess changes the copy button
\* only. MaxCopies caps the calls that wait, not the clicks.
CopyClick ==
    /\ ListenersRegistered
    /\ \E outcome \in CopyOutcomes :
          /\ outcome = "awaits" => copyPending < MaxCopies
          /\ copyPending' =
                IF convertedUrlInput # <<>> /\ outcome = "awaits"
                THEN copyPending + 1 ELSE copyPending
          /\ dom' =
                IF convertedUrlInput # <<>> /\ outcome = "failed"
                THEN showError(dom, "copy-failed") ELSE dom
    /\ UNCHANGED <<pc, platformsData, localStorage, xgetDomainInput, originalUrlInput,
                   convertedUrlInput, platformStatus, pasteTimers,
                   detectedPlatform, adjustedPath, sponsorModal, domainsGrid>>

\* The promise of writeText settled (lines 725-735): copied says whether it,
\* or after its rejection the execCommand fallback, went through; the failure
\* of both is reported, "copy-failed" standing for the text of line 734.
CopySettled ==
    /\ copyPending > 0
    /\ copyPending' = copyPending - 1
    /\ \E copied \in BOOLEAN :
          dom' = IF copied THEN dom ELSE showError(dom, "copy-failed")
    /\ UNCHANGED <<pc, platformsData, localStorage, xgetDomainInput, originalUrlInput,
                   convertedUrlInput, platformStatus, pasteTimers,
                   detectedPlatform, adjustedPath, sponsorModal, domainsGrid>>

\* "unhandledrejection" on window (lines 912-917), registered by the
\* module-level statements: reported while isLoading is false, "unexpected"
\* standing for the text of line 915
UnhandledRejection ==
    /\ pc # "module"
    /\ dom' = IF ~isLoading THEN showError(dom, "unexpected") ELSE dom
    /\ UNCHANGED <<pc, platformsData, localStorage, xgetDomainInput, originalUrlInput,
                   convertedUrlInput, platformStatus, pasteTimers, copyPending,
                   detectedPlatform, adjustedPath, sponsorModal, domainsGrid>>

Next ==
    \/ ModuleInit
    \/ DOMContentLoaded
    \/ LoadPlatformsSettled
    \/ DomainsSectionSettled
    \/ UrlInput
    \/ Paste
    \/ PasteTimeout
    \/ CatalogClick
    \/ DomainInput
    \/ DomainBlur
    \/ DontShowAgainChange
    \/ CopyClick
    \/ CopySettled
    \/ UnhandledRejection

Spec == Init /\ [][Next]_vars

-----------------------------------------------------------------------------
(* Properties of the page *)

UrlFieldText == Trim(originalUrlInput)

\* Where the claim of C8 does hold: the caller tells a string that does not
\* parse from a URL without a platform by calling isValidUrl before it
\* matches. While the field holds a non-blank string that does not parse, the
\* status is invalid-format, not unsupported, and the result is hidden.
InvalidFormatShown ==
    (pc = "ready" /\ UrlFieldText # <<>> /\ ~isValidUrl(UrlFieldText))
    => /\ platformStatus.text = "invalid-format"
       /\ dom.resultHidden

\* A conversion was displayed in this step
ConversionShown == convertedUrlInput' # convertedUrlInput

\* domain without the '/' characters at its end
WithoutTrailingSlashes(domain) ==
    LET kept == {i \in 1..Len(domain) : domain[i] # "/"}
    IN  IF kept = {} THEN <<>>
        ELSE SubSeq(domain, 1, CHOOSE i \in kept : \A j \in kept : j <= i)

\* The gateway domain in force for a field text: the trimmed text when it
\* parses, the default otherwise
EffectiveDomain(fieldValue) ==
    IF Trim(fieldValue) # <<>> /\ isValidUrl(Trim(fieldValue))
    THEN Trim(fieldValue)
    ELSE DefaultXgetDomain

\* C14 (as claimed): every composed URL is the gateway domain without the '/'
\* characters at its end, then '/', the identifier verbatim, and the rewritten
\* path; so what follows the domain is a single '/'.
C14_ComposedUrl ==
    [][ConversionShown
        => convertedUrlInput' =
              WithoutTrailingSlashes(EffectiveDomain(xgetDomainInput'.value))
                 \o <<"/">> \o detectedPlatform'.key \o adjustedPath'.out]_vars

FieldUnusable(fieldValue) ==
    Trim(fieldValue) = <<>> \/ ~isValidUrl(Trim(fieldValue))

\* C15: a conversion made while the gateway-domain field is empty or does not
\* parse is composed with the default gateway domain.
C15_DefaultGateway ==
    [][(ConversionShown /\ FieldUnusable(xgetDomainInput'.value))
        => convertedUrlInput' =
              DefaultXgetDomain \o <<"/">> \o detectedPlatform'.key
                 \o adjustedPath'.out]_vars

\* C15 witness: the field holds a text without a scheme and is marked as an
\* error, and the result shown for the npm URL starts with the default domain.
C15_Witness ==
    /\ pc = "ready"
    /\ xgetDomainInput = [value |-> D_invalid, error |-> TRUE]
    /\ originalUrlInput = U_npm_padded
    /\ ~dom.resultHidden
    /\ convertedUrlInput =
          DefaultXgetDomain \o <<"/">> \o K_npm
             \o <<"/", "r", "e", "a", "c", "t", "?", "v", "=", "1", "%", "2", "0", "2">>

StartupOrder ==
    { <<"module", "boot">>, <<"boot", "loading">>, <<"loading", "ready">> }

\* C17: the registry is loaded once, and the load has settled, with a registry
\* or with a reported failure, before detectPlatform or performUrlConversion is
\* called: until the handlers are registered nothing was matched or converted,
\* the startup steps happen once and in order, the step that ends the load
\* with an empty registry puts the failure on display, and platformsData is
\* assigned in that step and in no other.
C17_LoadedOnceBeforeMatching ==
    /\ [](pc # "ready"
             => /\ detectedPlatform = NotCalled
                /\ adjustedPath = NotCalled
                /\ convertedUrlInput = <<>>)
    /\ [][/\ pc' # pc => <<pc, pc'>> \in StartupOrder
          /\ (pc = "loading" /\ pc' = "ready" /\ Len(platformsData') = 0)
                => (~dom'.errorHidden /\ dom'.errorText = "load-failed")
          /\ platformsData' # platformsData => pc = "loading"
          /\ pc = "ready" => platformsData' = platformsData]_vars

\* C17 witness: the load failed and the failure is on display; the npm URL
\* typed afterwards was matched against the empty registry.
C17_Witness ==
    /\ pc = "ready" /\ platformsData = <<>>
    /\ ~dom.errorHidden /\ dom.errorText = "load-failed"
    /\ originalUrlInput = U_npm_padded
    /\ detectedPlatform = Null
    /\ platformStatus.text = "unsupported"

\* The URL the page composes from the two fields as they are now
ComposedNow ==
    XgetUrl(getXgetDomain(xgetDomainInput.value),
            detectPlatform(UrlFieldText).key,
            adjustPathForPlatform(BasePath(UrlFieldText),
                                  detectPlatform(UrlFieldText).key))

\* The result on display belongs to the two fields as they are now
ResultCurrent ==
    /\ isValidUrl(UrlFieldText)
    /\ detectPlatform(UrlFieldText) # Null
    /\ convertedUrlInput = ComposedNow

\* C18 (as claimed): whenever the result section is visible, the converted-URL
\* field is the composition of the gateway domain getXgetDomain gives for the
\* gateway-domain field as it is, the identifier detected for the original-URL
\* field as it is, and the rewritten path of that URL.
C18_ResultNeverStale ==
    (pc = "ready" /\ ~dom.resultHidden) => ResultCurrent

\* Where the claim of C18 does hold: while the gateway-domain field is not
\* marked as an error the result on display is current; a text that does not
\* parse leaves the result of the last usable gateway domain on display.
ResultCurrentUnlessDomainError ==
    (pc = "ready" /\ ~dom.resultHidden /\ ~xgetDomainInput.error) => ResultCurrent

-----------------------------------------------------------------------------
(* Specification of detectPlatform called again and again on one registry,
   with performUrlConversion, which rewrites and composes, called in between;
   pc is the record of the calls made so far. *)

CallTargets ==
    { U_gh_Homebrew_brew, U_ghcr_nginx, U_npm_registry, U_xnpm, U_noscheme }

CallRegistries ==
    LoadOutcomes \cup { <<Entry(K_homebrew, B_github_Homebrew), Entry(K_gh, B_github)>> }

InitCalls ==
    /\ platformsData \in CallRegistries
    /\ pc = << [call |-> "loadPlatforms", registry |-> platformsData] >>
    /\ originalUrlInput = <<>>
    /\ detectedPlatform = NotCalled
    /\ adjustedPath = NotCalled
    /\ PageLoaded

\* detectPlatform(url): lines 484-589 read url and platformsData and assign
\* nothing but locals; the objects returned are built at the return statements.
\* originalUrlInput keeps the argument for the conversion that may follow.
MatchCall ==
    /\ Len(pc) <= MaxCalls
    /\ platformsData' = platformsData
    /\ \E url \in CallTargets :
          /\ originalUrlInput' = url
          /\ detectedPlatform' = detectPlatform(url)
          /\ pc' = Append(pc, [call |-> "detectPlatform", url |-> url,
                               returned |-> detectedPlatform',
                               registry |-> platformsData'])
    /\ UNCHANGED <<adjustedPath, uiVars>>

\* performUrlConversion(url, detectedPlatform) for the platform and the URL of
\* the last call of detectPlatform
ConvertCall ==
    /\ Len(pc) <= MaxCalls
    /\ "key" \in DOMAIN detectedPlatform
    /\ platformsData' = platformsData
    /\ performUrlConversion(originalUrlInput, detectedPlatform,
                            xgetDomainInput.value, dom)
    /\ pc' = Append(pc, [call |-> "performUrlConversion", url |-> originalUrlInput,
                         registry |-> platformsData'])
    /\ UNCHANGED <<originalUrlInput, detectedPlatform, localStorage, xgetDomainInput,
                   platformStatus, pasteTimers, copyPending, sponsorModal,
                   domainsGrid>>

NextCalls == MatchCall \/ ConvertCall

SpecCalls == InitCalls /\ [][NextCalls]_vars

DetectCalls == { i \in DOMAIN pc : pc[i].call = "detectPlatform" }

-----------------------------------------------------------------------------
(* Specification of showResult, hideResult, showError and hideError called in
   any order; pc is the sequence of the calls made so far. *)

\* The messages of lines 330, 637, 734 and 915
ErrorMessages == { "load-failed", "conversion-failed", "copy-failed", "unexpected" }

InitDom ==
    /\ pc = <<>>
    /\ platformsData = <<>>
    /\ originalUrlInput = <<>>
    /\ detectedPlatform = NotCalled
    /\ adjustedPath = NotCalled
    /\ PageLoaded

DomCall(name, after) ==
    /\ Len(pc) < MaxCalls
    /\ pc' = Append(pc, name)
    /\ dom' = after
    /\ UNCHANGED <<platformsData, localStorage, xgetDomainInput, originalUrlInput,
                   convertedUrlInput, platformStatus, pasteTimers, copyPending, detectedPlatform,
                   adjustedPath, sponsorModal, domainsGrid>>

ShowResultCall == DomCall("showResult", showResult(dom))

HideResultCall == DomCall("hideResult", hideResult(dom))

ShowErrorCall == \E message \in ErrorMessages : DomCall(message, showError(dom, message))

HideErrorCall == DomCall("hideError", hideError(dom))

NextDom == ShowResultCall \/ HideResultCall \/ ShowErrorCall \/ HideErrorCall

SpecDom == InitDom /\ [][NextDom]_vars

\* C19: from the page as served, after any calls of showResult, hideResult,
\* showError and hideError the converter section has the class has-content
\* exactly when the result section or the error message is visible.
C19_HasContentIffVisible ==
    dom.hasContent <=> (~dom.resultHidden \/ ~dom.errorHidden)

\* C19 witness: the result was shown, then an error, then the result was
\* hidden: the error is still on display and has-content is still set.
C19_Witness ==
    /\ pc = <<"showResult", "copy-failed", "hideResult">>
    /\ dom.resultHidden /\ ~dom.errorHidden /\ dom.hasContent

\* C20: whatever local storage held when the script started, the timeout that
\* opens the sponsor modal is never set and the modal stays hidden: from the
\* module-level statements until the handler has read it, dontShowSponsorModal
\* is stored with a truthy value.
C20_ModalNeverScheduled ==
    /\ ~sponsorModal.scheduled
    /\ sponsorModal.hidden
    /\ pc \in {"boot", "loading"} => Truthy(localStorage.dontShowSponsorModal)

\* C20 witness: the handler ran without setting the timeout, and the box was
\* unchecked afterwards, which removes the item for the next start.
C20_Witness ==
    /\ pc = "ready"
    /\ sponsorModal = ModalInitial
    /\ localStorage.dontShowSponsorModal = Null

====
